---- MODULE Spec2Model ----
(***************************************************************************)
(* A model of the video-to-ascii-converter repository:                     *)
(*   - the frame codec (computeDelta / createFullFrame) of the             *)
(*     preprocessor and the batch encode loop of its CLI,                  *)
(*   - the binary writer (writeBinary) and the runtime decoder             *)
(*     (decodeBinary, decodeVarInt),                                       *)
(*   - the player (ASCIIPlayer: preDecodeFrames, play, tick, pause, seek,  *)
(*     setSpeed, destroy),                                                 *)
(*   - the live converter application (ASCIIVideoConverter) and its        *)
(*     worker.                                                             *)
(* Symbols are character codes, colours are bytes, indices are the         *)
(* 0-based indices of the source.                                          *)
(***************************************************************************)
EXTENDS Integers, Sequences, FiniteSets, TLC

VARIABLES
    \* ---- computeDelta applied to one pair of grids (SpecDelta)
    dPc, dPrev, dCurr, dInc, dRec, dBuf,
    \* ---- the batch encode loop of the CLI followed by the player (SpecPipeline)
    ePc, eMode, eInputs, eFrames, ePrevFrame, eAnimation, eDecoded,
    eFileCount, eError, eOutput,
    \* ---- writeBinary / decodeBinary / the player's pre-decoder (SpecBinary)
    bPc, bAnim, bFile, bBuffer, bTamper, bResult, bResolvedA, bResolvedB,
    \* ---- ASCIIPlayer (SpecPlayer)
    frameIndex, rafId, isDestroyed, elapsed, frameDuration, container,
    decodedCount, scheduled, lastOp, lastArg, cancelled, looped, drew, indexBefore,
    \* ---- ASCIIVideoConverter and its worker (SpecApp)
    useWorker, pendingFrame, currentColorMode, videoLoaded, videoPlaying,
    firstFrameTimer, currentFrame, frameSkipCount, worker, workerInbox,
    workerOutbox, appOp,
    \* ---- encodeVarInt followed by decodeVarInt on one integer (SpecVarInt)
    vPc, vN, vBytes, vOut,
    \* ---- the luminance tables for one ramp length (SpecLut)
    lPc, lRampLen, lInvert, lTable, lWorker,
    \* ---- one call of convertToASCII (SpecConvert)
    cPc, cImage, cOptions, cResult,
    \* ---- a converter: ASCIIRenderer or the worker (SpecRenderer)
    rKind, rCols, rRamp, rInvert, rRampCodes, rLut, rLastRows, rLastCols, rCharBuf, rColorBuf, rOp, rIn, rOut, rRef, rBetween,
    \* ---- preDecodeFrames with heap objects (player.ts 54-101)
    pPc, pAnim, pChars, pCur, pHeap, pDecoded, pTaken,
    \* ---- ASCIIHero (ASCIIHero.ts 28-178)
    hPc, hAutoplay, hReducedMotion, hFallback, hHasPlayer, hChildren, hDestroyedAt

deltaVars == <<dPc, dPrev, dCurr, dInc, dRec, dBuf>>
pipeVars == <<ePc, eMode, eInputs, eFrames, ePrevFrame, eAnimation, eDecoded,
              eFileCount, eError, eOutput>>
binVars == <<bPc, bAnim, bFile, bBuffer, bTamper, bResult, bResolvedA, bResolvedB>>
playerVars == <<frameIndex, rafId, isDestroyed, elapsed, frameDuration, container,
                decodedCount, scheduled, lastOp, lastArg, cancelled, looped, drew,
                indexBefore>>
appVars == <<useWorker, pendingFrame, currentColorMode, videoLoaded, videoPlaying,
             firstFrameTimer, currentFrame, frameSkipCount, worker, workerInbox,
             workerOutbox, appOp>>
varintVars == <<vPc, vN, vBytes, vOut>>
lutVars == <<lPc, lRampLen, lInvert, lTable, lWorker>>
convertVars == <<cPc, cImage, cOptions, cResult>>
rendererVars == <<rKind, rCols, rRamp, rInvert, rRampCodes, rLut, rLastRows, rLastCols, rCharBuf, rColorBuf, rOp, rIn, rOut, rRef, rBetween>>
predecodeVars == <<pPc, pAnim, pChars, pCur, pHeap, pDecoded, pTaken>>
heroVars == <<hPc, hAutoplay, hReducedMotion, hFallback, hHasPlayer, hChildren, hDestroyedAt>>
vars == <<deltaVars, pipeVars, binVars, playerVars, appVars, varintVars, lutVars, convertVars, rendererVars, predecodeVars, heroVars>>

(***************************************************************************)
(* Values                                                                  *)
(***************************************************************************)

\* JavaScript's undefined, for an optional number (DeltaChange.colorR, a read
\* past the end of a typed array).
Undef == -1

\* '\n', the line separator of a decoded frame's text.
NL == 10

\* DELTA_THRESHOLD = 0.4, as a percentage.  n > total * 0.4 in IEEE doubles is
\* n * 100 > total * 40 in integers: fl(0.4) = 0.4 * (1 + 2^-54), so total * fl(0.4)
\* rounds to 2*total/5 when that is an integer and is otherwise at least 0.2 away
\* from every integer.
DELTA_THRESHOLD_PCT == 40

Min(a, b) == IF a < b THEN a ELSE b
Max(a, b) == IF a > b THEN a ELSE b

\* seq[i] of the source, i 0-based: undefined outside the array.
At(seq, i) == IF i >= 0 /\ i < Len(seq) THEN seq[i + 1] ELSE Undef

\* x ?? 0
OrZero(x) == IF x = Undef THEN 0 ELSE x

\* A store into a Uint8Array element.
U8(x) == x % 256

Zeros(n) == [k \in 1..n |-> 0]

ColorModes == {"mono", "rgb", "palette"}

\* The symbols the grids are made of: '#' and '.'.
Symbols == {35, 46}

(***************************************************************************)
(* Frame records (types.ts).  One record shape for both variants: a full   *)
(* frame has no changes, a delta frame no chars; hasColors says whether    *)
(* the optional colors field of a full frame is present.                   *)
(***************************************************************************)
FullRecord(chars, hasColors, colors) ==
    [type |-> "full", chars |-> chars, hasColors |-> hasColors,
     colors |-> colors, changes |-> <<>>]

DeltaRecord(changes) ==
    [type |-> "delta", chars |-> <<>>, hasColors |-> FALSE,
     colors |-> <<>>, changes |-> changes]

NoRecord ==
    [type |-> "none", chars |-> <<>>, hasColors |-> FALSE,
     colors |-> <<>>, changes |-> <<>>]

\* A converted frame (ConvertedFrame of asciiConverter.ts).
Converted(chars, colors, rows, cols) ==
    [chars |-> chars, colors |-> colors, rows |-> rows, cols |-> cols]

NoConverted == Converted(<<>>, <<>>, 0, 0)

(***************************************************************************)
(* compress.ts: computeDelta, createFullFrame                              *)
(***************************************************************************)

\* The comparison of lines 19-26 without its blue channel.
CellChangedNoBlue(prev, curr, includeColors, i) ==
    LET charChanged == At(curr.chars, i) # At(prev.chars, i)
        colorChanged == includeColors /\
            (  At(curr.colors, i * 3) # At(prev.colors, i * 3)
            \/ At(curr.colors, i * 3 + 1) # At(prev.colors, i * 3 + 1) )
    IN  charChanged \/ colorChanged

\* Lines 19-26: whether cell i differs between prev and curr.
CellChanged(prev, curr, includeColors, i) ==
    LET charChanged == At(curr.chars, i) # At(prev.chars, i)
        colorChanged == includeColors /\
            (  At(curr.colors, i * 3) # At(prev.colors, i * 3)
            \/ At(curr.colors, i * 3 + 1) # At(prev.colors, i * 3 + 1)
            \/ At(curr.colors, i * 3 + 2) # At(prev.colors, i * 3 + 2) )
    IN  charChanged \/ colorChanged

\* Lines 27-36: the change pushed for cell i.
MakeChange(curr, includeColors, i) ==
    [index |-> i,
     char |-> At(curr.chars, i),
     colorR |-> IF includeColors THEN At(curr.colors, i * 3) ELSE Undef,
     colorG |-> IF includeColors THEN At(curr.colors, i * 3 + 1) ELSE Undef,
     colorB |-> IF includeColors THEN At(curr.colors, i * 3 + 2) ELSE Undef]

\* The loop of lines 18-40 scanning the cells from the last to the first.
DeltaChangesReversed(prev, curr, includeColors) ==
    LET cells == [k \in 1..Len(curr.chars) |-> Len(curr.chars) - k]
        idx == SelectSeq(cells, LAMBDA i : CellChanged(prev, curr, includeColors, i))
    IN  [k \in 1..Len(idx) |-> MakeChange(curr, includeColors, idx[k])]

\* Lines 16-40: the changes, in scan order.
DeltaChanges(prev, curr, includeColors) ==
    LET cells == [k \in 1..Len(curr.chars) |-> k - 1]
        idx == SelectSeq(cells, LAMBDA i : CellChanged(prev, curr, includeColors, i))
    IN  [k \in 1..Len(idx) |-> MakeChange(curr, includeColors, idx[k])]

\* The test of line 43 with a threshold of 0.6.
ExceedsThresholdLoose(n, total) == n * 100 > total * 60

\* The test of line 43 with >= in place of >.
ExceedsThresholdStrict(n, total) == n * 100 >= total * DELTA_THRESHOLD_PCT

\* Line 43: changes.length > curr.chars.length * DELTA_THRESHOLD.
ExceedsThreshold(n, total) == n * 100 > total * DELTA_THRESHOLD_PCT

computeDelta(prev, curr, includeColors) ==
    LET changes == DeltaChanges(prev, curr, includeColors)
    IN  IF ExceedsThreshold(Len(changes), Len(curr.chars))
        THEN FullRecord(curr.chars, includeColors,
                        IF includeColors THEN curr.colors ELSE <<>>)
        ELSE DeltaRecord(changes)

\* A record builder that returns a delta without changes.
createEmptyDelta(frame, includeColors) == DeltaRecord(<<>>)

\* Lines 60-69.
createFullFrame(frame, includeColors) ==
    FullRecord(frame.chars, includeColors,
               IF includeColors THEN frame.colors ELSE <<>>)

(***************************************************************************)
(* player.ts: preDecodeFrames                                              *)
(***************************************************************************)

\* The running buffers: currentChars and currentColors (undefined in mono).
Buffers(chars, hasColors, colors) ==
    [chars |-> chars, hasColors |-> hasColors, colors |-> colors]

\* Lines 56-63.
InitialBuffers(meta) ==
    LET includeColors == meta.colorMode # "mono"
    IN  Buffers(<<>>, includeColors,
                IF includeColors THEN Zeros(meta.rows * meta.cols * 3) ELSE <<>>)

\* chars[change.index] = change.char on the array chars (line 80).  The array
\* is a function on the set of its assigned indices: a store beyond the end
\* leaves holes, a store at a negative index sets no element.
ArrayOf(chars) == [i \in 0..(Len(chars) - 1) |-> chars[i + 1]]

ArrayStore(arr, index, value) ==
    IF index < 0 THEN arr
    ELSE [i \in (DOMAIN arr) \cup {index} |-> IF i = index THEN value ELSE arr[i]]

\* chars.join(''): the assigned elements in index order (a hole joins as '').
RECURSIVE ArrayJoin(_)
ArrayJoin(arr) ==
    IF DOMAIN arr = {} THEN <<>>
    ELSE LET lo == CHOOSE i \in DOMAIN arr : \A j \in DOMAIN arr : i <= j
         IN  <<arr[lo]>> \o ArrayJoin([i \in (DOMAIN arr) \ {lo} |-> arr[i]])

RECURSIVE ApplyCharChanges(_, _)
ApplyCharChanges(arr, changes) ==
    IF changes = <<>> THEN arr
    ELSE ApplyCharChanges(ArrayStore(arr, Head(changes).index, Head(changes).char),
                          Tail(changes))

\* currentColors[i] = v on a Uint8Array: ignored outside the array.
TypedStore(colors, i, v) ==
    IF i >= 0 /\ i < Len(colors) THEN [colors EXCEPT ![i + 1] = U8(v)] ELSE colors

\* Lines 82-84.  index * 3 is only formed for an index inside the array (a
\* store at an index beyond it is ignored whatever the product is).
StoreChangeColor(colors, change) ==
    IF change.index < 0 \/ change.index >= Len(colors) THEN colors
    ELSE TypedStore(
            TypedStore(
                TypedStore(colors, change.index * 3, OrZero(change.colorR)),
                change.index * 3 + 1, OrZero(change.colorG)),
            change.index * 3 + 2, OrZero(change.colorB))

RECURSIVE ApplyColorChanges(_, _)
ApplyColorChanges(colors, changes) ==
    IF changes = <<>> THEN colors
    ELSE ApplyColorChanges(StoreChangeColor(colors, Head(changes)), Tail(changes))

\* Lines 66-88 with a full frame that leaves the colour buffer as it is.
ApplyRecordKeepColors(cur, frame, includeColors) ==
    IF frame.type = "full"
    THEN [cur EXCEPT !.chars = frame.chars]
    ELSE [cur EXCEPT
            !.chars = ArrayJoin(ApplyCharChanges(ArrayOf(cur.chars), frame.changes)),
            !.colors = IF includeColors /\ cur.hasColors
                       THEN ApplyColorChanges(@, frame.changes) ELSE @]

\* Lines 66-88: one frame record applied to the running buffers.
ApplyRecord(cur, frame, includeColors) ==
    IF frame.type = "full"
    THEN [cur EXCEPT
            !.chars = frame.chars,
            !.colors = IF includeColors /\ frame.hasColors
                       THEN [k \in 1..Len(frame.colors) |-> U8(frame.colors[k])]
                       ELSE @]
    ELSE [cur EXCEPT
            !.chars = ArrayJoin(ApplyCharChanges(ArrayOf(cur.chars), frame.changes)),
            !.colors = IF includeColors /\ cur.hasColors
                       THEN ApplyColorChanges(@, frame.changes) ELSE @]

\* Lines 91-94 and 97: the text of a decoded frame, rows joined by '\n'.
RECURSIVE FormatLines(_, _, _)
FormatLines(chars, cols, i) ==
    IF i >= Len(chars) THEN <<>>
    ELSE (IF i > 0 THEN <<NL>> ELSE <<>>)
         \o SubSeq(chars, i + 1, Min(i + cols, Len(chars)))
         \o FormatLines(chars, cols, i + cols)

\* Lines 96-99: the snapshot pushed after a record.
Snapshot(cur, cols) ==
    [text |-> FormatLines(cur.chars, cols, 0),
     hasColors |-> cur.hasColors,
     colors |-> cur.colors]

RECURSIVE PreDecodeLoop(_, _, _, _)
PreDecodeLoop(frames, cur, meta, out) ==
    IF frames = <<>> THEN out
    ELSE LET next == ApplyRecord(cur, Head(frames), meta.colorMode # "mono")
         IN  PreDecodeLoop(Tail(frames), next, meta,
                           Append(out, Snapshot(next, meta.cols)))

preDecodeFrames(animation) ==
    PreDecodeLoop(animation.frames, InitialBuffers(animation.meta),
                  animation.meta, <<>>)

\* The symbols of a decoded frame's text (renderColoredFrame, line 164).
TextSymbols(text) == SelectSeq(text, LAMBDA c : c # NL)

(***************************************************************************)
(* Grids explored                                                          *)
(***************************************************************************)

\* The colour grids: variant 0 is uniform; variant 1 differs from it in the
\* blue channel of the last cell; variant 2 in one channel of each of the
\* first three cells.
CellColor(v, i, n) ==
    CASE v = 1 /\ i = n - 1 -> <<10, 20, 31>>
      [] v = 2 /\ i = 0 -> <<11, 20, 30>>
      [] v = 2 /\ i = 1 -> <<10, 21, 30>>
      [] v = 2 /\ i = 2 -> <<10, 20, 31>>
      [] OTHER -> <<10, 20, 30>>

ColorGrid(v, n) ==
    [k \in 1..(3 * n) |-> CellColor(v, (k - 1) \div 3, n)[((k - 1) % 3) + 1]]

\* The number of cells of the grids computeDelta is applied to in SpecDelta.
DeltaCells == 5

DeltaGrids ==
    { Converted(chars, ColorGrid(v, DeltaCells), 1, DeltaCells) :
        chars \in [1..DeltaCells -> Symbols], v \in 0..2 }

\* The grid of the batch pipeline: options.cols columns, and the rows the
\* converter derives from the raster.
PipeShape == [cols |-> 2, rows |-> 2]

PipeCells == PipeShape.cols * PipeShape.rows

PipeGrids ==
    { Converted(chars, ColorGrid(0, PipeCells), PipeShape.rows, PipeShape.cols) :
        chars \in [1..PipeCells -> Symbols] }
    \cup
    { Converted([k \in 1..PipeCells |-> 35], ColorGrid(v, PipeCells),
                PipeShape.rows, PipeShape.cols) : v \in 1..2 }

\* The most frames an input video is extracted to.
MaxFrames == 3

\* DEFAULT_RAMP = ' .:+*#@'
DEFAULT_RAMP == <<32, 46, 58, 43, 42, 35, 64>>

(***************************************************************************)
(* SpecDelta: computeDelta on a pair of grids, and its record applied to a *)
(* copy of the previous grid                                               *)
(***************************************************************************)
NoBuffers == Buffers(<<>>, FALSE, <<>>)

DeltaIdle ==
    /\ dPc = "idle"
    /\ dPrev = NoConverted
    /\ dCurr = NoConverted
    /\ dInc = FALSE
    /\ dRec = NoRecord
    /\ dBuf = NoBuffers

DeltaInit ==
    /\ dPc = "start"
    /\ dPrev \in DeltaGrids
    /\ dCurr \in DeltaGrids
    /\ dInc \in BOOLEAN
    /\ dRec = NoRecord
    /\ dBuf = NoBuffers

ComputeDeltaStep ==
    /\ dPc = "start"
    /\ dRec' = computeDelta(dPrev, dCurr, dInc)
    /\ dPc' = "encoded"
    /\ UNCHANGED <<dPrev, dCurr, dInc, dBuf>>
    /\ UNCHANGED <<pipeVars, binVars, playerVars, appVars, varintVars, lutVars, convertVars, rendererVars, predecodeVars, heroVars>>

\* The record applied to a copy of the previous grid (player.ts, 66-88).
ApplyDeltaStep ==
    /\ dPc = "encoded"
    /\ dBuf' = ApplyRecord(
                  Buffers(dPrev.chars, dInc, IF dInc THEN dPrev.colors ELSE <<>>),
                  dRec, dInc)
    /\ dPc' = "applied"
    /\ UNCHANGED <<dPrev, dCurr, dInc, dRec>>
    /\ UNCHANGED <<pipeVars, binVars, playerVars, appVars, varintVars, lutVars, convertVars, rendererVars, predecodeVars, heroVars>>

DeltaNext == ComputeDeltaStep \/ ApplyDeltaStep

(***************************************************************************)
(* SpecPipeline: the frame loop of the CLI's main (compress.ts, 363-415)   *)
(* and the player constructed on the animation it builds                   *)
(***************************************************************************)
NoAnimation ==
    [meta |-> [version |-> 0, cols |-> 0, rows |-> 0, fps |-> 0, frameCount |-> 0,
               colorMode |-> "mono", ramp |-> <<>>],
     frames |-> <<>>]

PipeIdle ==
    /\ ePc = "idle"
    /\ eMode = "mono"
    /\ eInputs = <<>>
    /\ eFrames = <<>>
    /\ ePrevFrame = NoConverted
    /\ eAnimation = NoAnimation
    /\ eDecoded = <<>>
    /\ eFileCount = 0
    /\ eError = ""
    /\ eOutput = NoAnimation

\* The state on entry to the loop of line 368: files holds the frames
\* extracted (lines 352-354), nothing is written yet.
PipeInit ==
    /\ ePc = "loop"
    /\ eMode \in ColorModes
    /\ eInputs = <<>>
    /\ eFrames = <<>>
    /\ ePrevFrame = NoConverted
    /\ eAnimation = NoAnimation
    /\ eDecoded = <<>>
    /\ eFileCount \in 0..MaxFrames
    /\ eError = ""
    /\ eOutput = NoAnimation

\* Lines 385-390 with the record made of the previous frame.
EncodeRecordStale(i, prevFrame, converted, includeColors) ==
    IF i = 0 \/ prevFrame = NoConverted
    THEN createFullFrame(converted, includeColors)
    ELSE createFullFrame(prevFrame, includeColors)

\* Lines 385-390: the record pushed for frame i.
EncodeRecord(i, prevFrame, converted, includeColors) ==
    IF i = 0 \/ prevFrame = NoConverted
    THEN createFullFrame(converted, includeColors)
    ELSE computeDelta(prevFrame, converted, includeColors)

\* One iteration of the loop (lines 368-398); converted is what loadImage and
\* convertToASCII give for files[i].
EncodeFrame(converted) ==
    /\ ePc = "loop"
    /\ Len(eInputs) < eFileCount
    /\ eFrames' = Append(eFrames,
                    EncodeRecord(Len(eInputs), ePrevFrame, converted, eMode # "mono"))
    /\ ePrevFrame' = converted
    /\ eInputs' = Append(eInputs, converted)
    /\ UNCHANGED <<ePc, eMode, eAnimation, eDecoded, eFileCount, eError, eOutput>>
    /\ UNCHANGED <<deltaVars, binVars, playerVars, appVars, varintVars, lutVars, convertVars, rendererVars, predecodeVars, heroVars>>

\* loadImage (line 371) rejects for files[i]: the await throws out of the
\* loop, the finally block of lines 444-447 removes the frames, main's promise
\* rejects and the handler of lines 486-489 prints the message and exits.
FrameFails ==
    /\ ePc = "loop"
    /\ Len(eInputs) < eFileCount
    /\ eError' = "load"
    /\ ePc' = "failed"
    /\ UNCHANGED <<eMode, eInputs, eFrames, ePrevFrame, eAnimation, eDecoded,
                   eFileCount, eOutput>>
    /\ UNCHANGED <<deltaVars, binVars, playerVars, appVars, varintVars, lutVars, convertVars, rendererVars, predecodeVars, heroVars>>

\* The loop ends after files.length frames; lines 403-415 build the
\* animation and lines 428-440 write it to the output path.
BuildAnimation ==
    /\ ePc = "loop"
    /\ Len(eInputs) = eFileCount
    /\ eAnimation' =
         [meta |-> [version |-> 1,
                    cols |-> PipeShape.cols,
                    rows |-> IF eInputs = <<>> THEN 0 ELSE ePrevFrame.rows,
                    fps |-> 24,
                    frameCount |-> Len(eFrames),
                    colorMode |-> eMode,
                    ramp |-> DEFAULT_RAMP],
          frames |-> eFrames]
    /\ eOutput' = eAnimation'
    /\ ePc' = "built"
    /\ UNCHANGED <<eMode, eInputs, eFrames, ePrevFrame, eDecoded, eFileCount, eError>>
    /\ UNCHANGED <<deltaVars, binVars, playerVars, appVars, varintVars, lutVars, convertVars, rendererVars, predecodeVars, heroVars>>

\* new ASCIIPlayer(animation, ...): player.ts line 42.
ConstructPlayer ==
    /\ ePc = "built"
    /\ eDecoded' = preDecodeFrames(eAnimation)
    /\ ePc' = "played"
    /\ UNCHANGED <<eMode, eInputs, eFrames, ePrevFrame, eAnimation, eFileCount,
                   eError, eOutput>>
    /\ UNCHANGED <<deltaVars, binVars, playerVars, appVars, varintVars, lutVars, convertVars, rendererVars, predecodeVars, heroVars>>

PipeNext ==
    \/ \E g \in PipeGrids : EncodeFrame(g)
    \/ FrameFails
    \/ BuildAnimation
    \/ ConstructPlayer

(***************************************************************************)
(* compress.ts: encodeVarInt, writeBinary                                  *)
(***************************************************************************)

\* Lines 74-82, for 0 <= n < 2^31.
RECURSIVE encodeVarInt(_)
encodeVarInt(n) ==
    IF n > 127 THEN <<(n % 128) + 128>> \o encodeVarInt(n \div 128) ELSE <<n>>

\* "ASCI"
Magic == <<65, 83, 67, 73>>

\* Line 201.
ColorModeByte(mode) == IF mode = "mono" THEN 0 ELSE IF mode = "rgb" THEN 1 ELSE 2

\* DataView.setUint16(offset, x, true)
U16LE(x) == <<x % 256, (x \div 256) % 256>>

\* Lines 191-206: the 32-byte header.
HeaderBytes(meta) ==
    Magic
    \o <<U8(meta.version), ColorModeByte(meta.colorMode)>>
    \o U16LE(meta.cols)
    \o U16LE(meta.rows)
    \o <<U8(meta.fps)>>
    \o U16LE(meta.frameCount)
    \o <<U8(Len(meta.ramp))>>
    \o Zeros(18)

\* Lines 211-214.
RampBytes(ramp) == [k \in 1..Len(ramp) |-> U8(ramp[k])]

\* Lines 247-261.
ChangeBytes(change, includeColors) ==
    encodeVarInt(change.index)
    \o <<U8(change.char)>>
    \o (IF includeColors
        THEN <<U8(OrZero(change.colorR)), U8(OrZero(change.colorG)),
               U8(OrZero(change.colorB))>>
        ELSE <<>>)

RECURSIVE ChangesBytes(_, _)
ChangesBytes(changes, includeColors) ==
    IF changes = <<>> THEN <<>>
    ELSE ChangeBytes(Head(changes), includeColors)
         \o ChangesBytes(Tail(changes), includeColors)

\* Lines 221-263: one frame record.
FrameBytes(frame, includeColors) ==
    IF frame.type = "full"
    THEN <<0>>
         \o [k \in 1..Len(frame.chars) |-> U8(frame.chars[k])]
         \o (IF includeColors /\ frame.hasColors
             THEN [k \in 1..Len(frame.colors) |-> U8(frame.colors[k])]
             ELSE <<>>)
    ELSE <<1>>
         \o encodeVarInt(Len(frame.changes))
         \o ChangesBytes(frame.changes, includeColors)

RECURSIVE FramesBytes(_, _)
FramesBytes(frames, includeColors) ==
    IF frames = <<>> THEN <<>>
    ELSE FrameBytes(Head(frames), includeColors)
         \o FramesBytes(Tail(frames), includeColors)

\* Lines 186-277: the bytes written to the file.  No path of the function
\* rejects an animation.
writeBinary(animation) ==
    HeaderBytes(animation.meta)
    \o RampBytes(animation.meta.ramp)
    \o FramesBytes(animation.frames, animation.meta.colorMode # "mono")

(***************************************************************************)
(* The decoder (unnamed/part_000): decodeVarInt, decodeBinary              *)
(***************************************************************************)

\* NaN, the offset after "offset += rampLen" with rampLen undefined.
NaN == Undef - 1

AddOffset(offset, n) == IF offset = NaN \/ n = Undef THEN NaN ELSE offset + n

\* bytes[offset]: undefined past the end and at NaN.
ByteAt(bytes, offset) ==
    IF offset # NaN /\ offset >= 0 /\ offset < Len(bytes)
    THEN bytes[offset + 1] ELSE Undef

\* bytes.slice(offset, offset + n); NaN converts to 0.
Slice(bytes, offset, n) ==
    IF offset = NaN \/ n = Undef THEN <<>>
    ELSE SubSeq(bytes, offset + 1, Min(offset + n, Len(bytes)))

\* A 32-bit integer is the set of its bits that are 1.
BitsOf7(payload) == { b \in 0..6 : (payload \div (2 ^ b)) % 2 = 1 }

\* (byte & 0x7f) << shift: the shift count is taken modulo 32 and the bits
\* shifted beyond bit 31 are lost.
ShiftLeft(payload, shift) ==
    { b + (shift % 32) : b \in BitsOf7(payload) } \cap (0..31)

RECURSIVE SumBits(_)
SumBits(bits) ==
    IF bits = {} THEN 0
    ELSE LET b == CHOOSE x \in bits : TRUE IN (2 ^ b) + SumBits(bits \ {b})

\* The signed value of a 32-bit pattern.
Int32(bits) ==
    IF 31 \in bits
    THEN (SumBits(bits \ {31}) - (2 ^ 30)) - (2 ^ 30)
    ELSE SumBits(bits)

\* Lines 35-41 of decodeVarInt with a loop that an undefined byte does not
\* end (followed for three bytes beyond the buffer).
RECURSIVE VarIntLoopPastEnd(_, _, _, _, _)
VarIntLoopPastEnd(bytes, offset, bytesRead, shift, bits) ==
    LET byte == ByteAt(bytes, AddOffset(offset, bytesRead))
        payload == IF byte = Undef THEN 0 ELSE byte % 128
        value == bits \cup ShiftLeft(payload, shift)
    IN  IF (byte # Undef /\ byte < 128) \/ bytesRead > Len(bytes) + 3
        THEN [value |-> Int32(value), bytesRead |-> bytesRead + 1]
        ELSE VarIntLoopPastEnd(bytes, offset, bytesRead + 1, shift + 7, value)

\* Lines 35-41 of decodeVarInt: an undefined byte contributes 0 and ends the loop.
RECURSIVE VarIntLoop(_, _, _, _, _)
VarIntLoop(bytes, offset, bytesRead, shift, bits) ==
    LET byte == ByteAt(bytes, AddOffset(offset, bytesRead))
        payload == IF byte = Undef THEN 0 ELSE byte % 128
        value == bits \cup ShiftLeft(payload, shift)
    IN  IF byte = Undef \/ byte < 128
        THEN [value |-> Int32(value), bytesRead |-> bytesRead + 1]
        ELSE VarIntLoop(bytes, offset, bytesRead + 1, shift + 7, value)

decodeVarInt(bytes, offset) == VarIntLoop(bytes, offset, 0, 0, {})

\* Lines 109-124: the changes of a delta frame.
RECURSIVE DecodeChanges(_, _, _, _, _, _)
DecodeChanges(bytes, offset, j, changeCount, includeColors, changes) ==
    IF j >= changeCount THEN [changes |-> changes, offset |-> offset]
    ELSE LET idx == decodeVarInt(bytes, offset)
             o1 == AddOffset(offset, idx.bytesRead)
             char == OrZero(ByteAt(bytes, o1))
             o2 == AddOffset(o1, 1)
             change == [index |-> idx.value,
                        char |-> char,
                        colorR |-> IF includeColors THEN ByteAt(bytes, o2) ELSE Undef,
                        colorG |-> IF includeColors
                                   THEN ByteAt(bytes, AddOffset(o2, 1)) ELSE Undef,
                        colorB |-> IF includeColors
                                   THEN ByteAt(bytes, AddOffset(o2, 2)) ELSE Undef]
             o3 == IF includeColors THEN AddOffset(o2, 3) ELSE o2
         IN  DecodeChanges(bytes, o3, j + 1, changeCount, includeColors,
                           Append(changes, change))

\* Lines 86-128: the frame records.
RECURSIVE DecodeFrames(_, _, _, _, _, _, _)
DecodeFrames(bytes, offset, i, frameCount, totalChars, includeColors, frames) ==
    IF i >= frameCount THEN frames
    ELSE LET frameType == ByteAt(bytes, offset)
             o1 == AddOffset(offset, 1)
         IN  IF frameType = 0
             THEN LET chars == Slice(bytes, o1, totalChars)
                      o2 == AddOffset(o1, totalChars)
                      colors == IF includeColors
                                THEN Slice(bytes, o2, totalChars * 3) ELSE <<>>
                      o3 == IF includeColors THEN AddOffset(o2, totalChars * 3) ELSE o2
                  IN  DecodeFrames(bytes, o3, i + 1, frameCount, totalChars,
                                   includeColors,
                                   Append(frames, FullRecord(chars, includeColors, colors)))
             ELSE LET count == decodeVarInt(bytes, o1)
                      body == DecodeChanges(bytes, AddOffset(o1, count.bytesRead), 0,
                                            count.value, includeColors, <<>>)
                  IN  DecodeFrames(bytes, body.offset, i + 1, frameCount, totalChars,
                                   includeColors,
                                   Append(frames, DeltaRecord(body.changes)))

\* DataView.getUint16(offset, true), in range.
GetUint16(bytes, offset) == bytes[offset + 1] + 256 * bytes[offset + 2]

Failure(error) == [ok |-> FALSE, error |-> error, animation |-> NoAnimation]

\* The comparison of lines 59-62 on the first three bytes only.
MagicMatchesFirstThree(bytes) ==
    \A k \in 1..3 : OrZero(At(bytes, k - 1)) = Magic[k]

\* Lines 59-62: the magic is "ASCI" (an undefined byte reads as '\0').
MagicMatches(bytes) ==
    \A k \in 1..4 : OrZero(At(bytes, k - 1)) = Magic[k]

\* Lines 54-143.  The only failures are the magic check and the RangeError
\* of getUint16 on a buffer that ends inside the field it reads (the last
\* such field is frameCount, bytes 11-12).
decodeBinary(bytes) ==
    IF ~MagicMatches(bytes) THEN Failure("bad magic")
    ELSE IF Len(bytes) < 13 THEN Failure("RangeError")
    ELSE LET colorModeNum == bytes[6]
             colorMode == IF colorModeNum = 0 THEN "mono"
                          ELSE IF colorModeNum = 1 THEN "rgb" ELSE "palette"
             cols == GetUint16(bytes, 6)
             rows == GetUint16(bytes, 8)
             frameCount == GetUint16(bytes, 11)
             rampLen == ByteAt(bytes, 13)
             ramp == Slice(bytes, 32, rampLen)
             offset == AddOffset(32, rampLen)
         IN  [ok |-> TRUE,
              error |-> "none",
              animation |->
                [meta |-> [version |-> bytes[5], cols |-> cols, rows |-> rows,
                           fps |-> bytes[11], frameCount |-> frameCount,
                           colorMode |-> colorMode, ramp |-> ramp],
                 frames |-> DecodeFrames(bytes, offset, 0, frameCount, rows * cols,
                                         colorMode # "mono", <<>>)]]

(***************************************************************************)
(* SpecBinary: an animation written by writeBinary, the file (or a         *)
(* damaged copy of it) decoded by decodeBinary, and a player constructed   *)
(* on the animation and on the decoded animation                           *)
(***************************************************************************)

\* The most frame records of an animation handed to writeBinary.
MaxAnimFrames == 2

BinShapes == {[cols |-> 2, rows |-> 1], [cols |-> 1, rows |-> 2]}

Change(index, char, r, g, b) ==
    [index |-> index, char |-> char, colorR |-> r, colorG |-> g, colorB |-> b]

\* Frame records of two cells: full frames with and without the optional
\* colors, deltas with and without the optional colour of a change.
BinFrames ==
    { FullRecord(<<35, 46>>, TRUE, ColorGrid(1, 2)),
      FullRecord(<<46, 46>>, TRUE, ColorGrid(0, 2)),
      FullRecord(<<46, 35>>, FALSE, <<>>),
      DeltaRecord(<<>>),
      DeltaRecord(<<Change(0, 35, 11, 20, 30)>>),
      DeltaRecord(<<Change(1, 46, Undef, Undef, Undef)>>),
      DeltaRecord(<<Change(0, 46, 10, 21, 30), Change(1, 35, 10, 20, 31)>>) }

RECURSIVE SeqsUpTo(_, _)
SeqsUpTo(S, n) ==
    IF n = 0 THEN {<<>>}
    ELSE LET shorter == SeqsUpTo(S, n - 1)
         IN  shorter \cup { Append(s, x) : s \in shorter, x \in S }

\* A ramp one symbol longer than the header's length byte can count.
LongRamp == [k \in 1..256 |-> 35]

MakeAnimation(shape, mode, ramp, frames) ==
    [meta |-> [version |-> 1, cols |-> shape.cols, rows |-> shape.rows, fps |-> 24,
               frameCount |-> Len(frames), colorMode |-> mode, ramp |-> ramp],
     frames |-> frames]

BinAnimations ==
    { MakeAnimation(shape, mode, DEFAULT_RAMP, frames) :
        shape \in BinShapes, mode \in ColorModes,
        frames \in SeqsUpTo(BinFrames, MaxAnimFrames) }
    \cup
    { MakeAnimation([cols |-> 2, rows |-> 1], mode, LongRamp,
                    <<FullRecord(<<46, 46>>, TRUE, ColorGrid(0, 2))>>) :
        mode \in ColorModes }

NoResult == [ok |-> FALSE, error |-> "none", animation |-> NoAnimation]

BinIdle ==
    /\ bPc = "idle" /\ bAnim = NoAnimation /\ bFile = <<>> /\ bBuffer = <<>>
    /\ bTamper = "none" /\ bResult = NoResult
    /\ bResolvedA = <<>> /\ bResolvedB = <<>>

BinInit ==
    /\ bPc = "start" /\ bAnim \in BinAnimations /\ bFile = <<>> /\ bBuffer = <<>>
    /\ bTamper = "none" /\ bResult = NoResult
    /\ bResolvedA = <<>> /\ bResolvedB = <<>>

WriteBinaryStep ==
    /\ bPc = "start"
    /\ bFile' = writeBinary(bAnim)
    /\ bPc' = "written"
    /\ UNCHANGED <<bAnim, bBuffer, bTamper, bResult, bResolvedA, bResolvedB>>
    /\ UNCHANGED <<deltaVars, pipeVars, playerVars, appVars, varintVars, lutVars, convertVars, rendererVars, predecodeVars, heroVars>>

\* loadAnimation's response.arrayBuffer(): the file as written ...
FetchFile ==
    /\ bPc = "written"
    /\ bBuffer' = bFile
    /\ bTamper' = "none"
    /\ bPc' = "fetched"
    /\ UNCHANGED <<bAnim, bFile, bResult, bResolvedA, bResolvedB>>
    /\ UNCHANGED <<deltaVars, pipeVars, playerVars, appVars, varintVars, lutVars, convertVars, rendererVars, predecodeVars, heroVars>>

\* ... or only its first k bytes ...
FetchTruncated(k) ==
    /\ bPc = "written"
    /\ k < Len(bFile)
    /\ bBuffer' = SubSeq(bFile, 1, k)
    /\ bTamper' = "truncated"
    /\ bPc' = "fetched"
    /\ UNCHANGED <<bAnim, bFile, bResult, bResolvedA, bResolvedB>>
    /\ UNCHANGED <<deltaVars, pipeVars, playerVars, appVars, varintVars, lutVars, convertVars, rendererVars, predecodeVars, heroVars>>

\* ... or a file of another format: byte i of the magic differs.
FetchForeign(i) ==
    /\ bPc = "written"
    /\ bBuffer' = [bFile EXCEPT ![i] = 0]
    /\ bTamper' = "magic"
    /\ bPc' = "fetched"
    /\ UNCHANGED <<bAnim, bFile, bResult, bResolvedA, bResolvedB>>
    /\ UNCHANGED <<deltaVars, pipeVars, playerVars, appVars, varintVars, lutVars, convertVars, rendererVars, predecodeVars, heroVars>>

\* The most bytes at the end of a file that are replaced.
MaxTail == 6

\* ... or its first k bytes, the header fields among them, followed by up to
\* MaxTail bytes that are all 0x80: every byte a varint is read from there
\* carries the continuation bit.
FetchContinued(k) ==
    /\ bPc = "written"
    /\ k >= 13 /\ k < Len(bFile) /\ Len(bFile) - k <= MaxTail
    /\ bBuffer' = [i \in 1..Len(bFile) |-> IF i <= k THEN bFile[i] ELSE 128]
    /\ bTamper' = "continued"
    /\ bPc' = "fetched"
    /\ UNCHANGED <<bAnim, bFile, bResult, bResolvedA, bResolvedB>>
    /\ UNCHANGED <<deltaVars, pipeVars, playerVars, appVars, varintVars, lutVars, convertVars, rendererVars, predecodeVars, heroVars>>

DecodeBinaryStep ==
    /\ bPc = "fetched"
    /\ bResult' = decodeBinary(bBuffer)
    /\ bPc' = IF bResult'.ok THEN "decoded" ELSE "failed"
    /\ UNCHANGED <<bAnim, bFile, bBuffer, bTamper, bResolvedA, bResolvedB>>
    /\ UNCHANGED <<deltaVars, pipeVars, playerVars, appVars, varintVars, lutVars, convertVars, rendererVars, predecodeVars, heroVars>>

\* A player constructed on the animation, and one on the decoded animation.
ResolveStep ==
    /\ bPc = "decoded"
    /\ bResolvedA' = preDecodeFrames(bAnim)
    /\ bResolvedB' = preDecodeFrames(bResult.animation)
    /\ bPc' = "resolved"
    /\ UNCHANGED <<bAnim, bFile, bBuffer, bTamper, bResult>>
    /\ UNCHANGED <<deltaVars, pipeVars, playerVars, appVars, varintVars, lutVars, convertVars, rendererVars, predecodeVars, heroVars>>

BinNext ==
    \/ WriteBinaryStep
    \/ FetchFile
    \/ \E k \in 0..(Len(bFile) - 1) : FetchTruncated(k)
    \/ \E i \in 1..4 : FetchForeign(i)
    \/ \E k \in Max(13, Len(bFile) - MaxTail)..(Len(bFile) - 1) : FetchContinued(k)
    \/ DecodeBinaryStep
    \/ ResolveStep

(***************************************************************************)
(* player.ts: play, tick, pause, seek, setSpeed, destroy                   *)
(***************************************************************************)

\* rafId: number | null = null.  requestAnimationFrame returns ids from 1.
Null == 0

\* The most requestAnimationFrame callbacks pending at once.
MaxCallbacks == 3

\* The longest time since lastFrameTime that is told apart.
MaxElapsed == 3

\* frameDuration = 1000 / (fps * speed), in units of time.
Durations == {1, 2}

\* The fields of the player its methods assign (drew: the method called
\* renderFrame and it returned; looped: the method called onLoop).
PlayerState ==
    [frameIndex |-> frameIndex, rafId |-> rafId, scheduled |-> scheduled,
     elapsed |-> elapsed, container |-> container, looped |-> FALSE,
     drew |-> FALSE]

\* The id requestAnimationFrame hands out: one that no pending callback has.
FreeId(pending) ==
    CHOOSE id \in 1..(Cardinality(pending) + 1) :
        id \notin pending /\ \A j \in 1..(id - 1) : j \in pending

\* Line 135: this.rafId = requestAnimationFrame(this.tick).
requestAnimationFrame(s) ==
    [s EXCEPT !.rafId = FreeId(s.scheduled),
              !.scheduled = @ \cup {FreeId(s.scheduled)}]

\* Lines 115-136 with frameIndex left past the last frame.
tickNoWrap(s) ==
    IF isDestroyed THEN s
    ELSE IF s.elapsed >= frameDuration
    THEN IF decodedCount = 0 THEN s
         ELSE requestAnimationFrame(
                    [s EXCEPT !.container = <<s.frameIndex>>,
                              !.drew = TRUE,
                              !.frameIndex = s.frameIndex + 1,
                              !.elapsed = s.elapsed % frameDuration])
    ELSE requestAnimationFrame(s)

\* Lines 115-136.  renderFrame on an empty decodedFrames throws (frame is
\* undefined), which ends tick before it re-arms.
tick(s) ==
    IF isDestroyed THEN s
    ELSE IF s.elapsed >= frameDuration
    THEN IF decodedCount = 0 THEN s
         ELSE LET wrap == s.frameIndex + 1 >= decodedCount
              IN  requestAnimationFrame(
                    [s EXCEPT !.container = <<s.frameIndex>>,
                              !.drew = TRUE,
                              !.frameIndex = IF wrap THEN 0 ELSE s.frameIndex + 1,
                              !.looped = wrap,
                              !.elapsed = s.elapsed % frameDuration])
    ELSE requestAnimationFrame(s)

\* Lines 199-204, with the id left in place.
pauseKeepsRafId(s) ==
    [s EXCEPT !.scheduled = @ \ {s.rafId}]

\* Lines 199-204.
pause(s) ==
    IF s.rafId # Null
    THEN [s EXCEPT !.scheduled = @ \ {s.rafId}, !.rafId = Null]
    ELSE s

Assign(s) ==
    /\ frameIndex' = s.frameIndex
    /\ rafId' = s.rafId
    /\ scheduled' = s.scheduled
    /\ elapsed' = s.elapsed
    /\ container' = s.container
    /\ looped' = s.looped
    /\ drew' = s.drew

PlayerIdle ==
    /\ frameIndex = 0 /\ rafId = Null /\ isDestroyed = FALSE /\ elapsed = 0
    /\ frameDuration = 1 /\ container = <<>> /\ decodedCount = 0
    /\ scheduled = {} /\ lastOp = "idle" /\ cancelled = FALSE /\ looped = FALSE
    /\ drew = FALSE /\ indexBefore = 0 /\ lastArg = 0

\* Lines 23-49: a player constructed on an animation of decodedCount frames.
PlayerInit ==
    /\ frameIndex = 0 /\ rafId = Null /\ isDestroyed = FALSE /\ elapsed = 0
    /\ frameDuration \in Durations /\ container = <<>>
    /\ decodedCount \in 0..MaxFrames
    /\ scheduled = {} /\ lastOp = "new" /\ cancelled = FALSE /\ looped = FALSE
    /\ drew = FALSE /\ indexBefore = 0 /\ lastArg = 0

\* Lines 106-110.
Play ==
    /\ Cardinality(scheduled) < MaxCallbacks
    /\ IF isDestroyed
       THEN Assign(PlayerState) /\ UNCHANGED cancelled
       ELSE Assign(tick([PlayerState EXCEPT !.elapsed = 0])) /\ cancelled' = FALSE
    /\ lastOp' = "play"
    /\ lastArg' = 0
    /\ indexBefore' = frameIndex
    /\ UNCHANGED <<isDestroyed, frameDuration, decodedCount>>
    /\ UNCHANGED <<deltaVars, pipeVars, binVars, appVars, varintVars, lutVars, convertVars, rendererVars, predecodeVars, heroVars>>

\* The browser runs the callback registered under id.
AnimationFrame(id) ==
    /\ id \in scheduled
    /\ Assign(tick([PlayerState EXCEPT !.scheduled = @ \ {id}]))
    /\ lastOp' = "tick"
    /\ lastArg' = 0
    /\ indexBefore' = frameIndex
    /\ UNCHANGED <<isDestroyed, frameDuration, decodedCount, cancelled>>
    /\ UNCHANGED <<deltaVars, pipeVars, binVars, appVars, varintVars, lutVars, convertVars, rendererVars, predecodeVars, heroVars>>

Pause ==
    /\ Assign(pause(PlayerState))
    /\ cancelled' = TRUE
    /\ lastOp' = "pause"
    /\ lastArg' = 0
    /\ indexBefore' = frameIndex
    /\ UNCHANGED <<isDestroyed, frameDuration, decodedCount>>
    /\ UNCHANGED <<deltaVars, pipeVars, binVars, appVars, varintVars, lutVars, convertVars, rendererVars, predecodeVars, heroVars>>

\* Line 210 without the lower limit.
seekTargetNoFloor(i, length) == Min(i, length - 1)

\* Line 210: Math.max(0, Math.min(frameIndex, this.decodedFrames.length - 1)).
seekTarget(i, length) == Max(0, Min(i, length - 1))

\* Lines 209-212.  renderFrame throws on an empty decodedFrames, after
\* frameIndex is assigned.
Seek(i) ==
    LET target == seekTarget(i, decodedCount)
    IN  /\ Assign([PlayerState EXCEPT
                     !.frameIndex = target,
                     !.container = IF decodedCount = 0 THEN @ ELSE <<target>>,
                     !.drew = decodedCount # 0])
        /\ lastOp' = "seek"
        /\ lastArg' = i
        /\ indexBefore' = frameIndex
        /\ UNCHANGED <<isDestroyed, frameDuration, decodedCount, cancelled>>
        /\ UNCHANGED <<deltaVars, pipeVars, binVars, appVars, varintVars, lutVars, convertVars, rendererVars, predecodeVars, heroVars>>

\* Lines 217-219.
SetSpeed(d) ==
    /\ frameDuration' = d
    /\ Assign(PlayerState)
    /\ lastOp' = "setSpeed"
    /\ lastArg' = 0
    /\ indexBefore' = frameIndex
    /\ UNCHANGED <<isDestroyed, decodedCount, cancelled>>
    /\ UNCHANGED <<deltaVars, pipeVars, binVars, appVars, varintVars, lutVars, convertVars, rendererVars, predecodeVars, heroVars>>

\* Lines 245-250.
Destroy ==
    /\ isDestroyed' = TRUE
    /\ Assign([pause(PlayerState) EXCEPT !.container = <<>>])
    /\ decodedCount' = 0
    /\ cancelled' = TRUE
    /\ lastOp' = "destroy"
    /\ lastArg' = 0
    /\ indexBefore' = frameIndex
    /\ UNCHANGED frameDuration
    /\ UNCHANGED <<deltaVars, pipeVars, binVars, appVars, varintVars, lutVars, convertVars, rendererVars, predecodeVars, heroVars>>

\* performance.now() advances.
TimePasses ==
    /\ elapsed < MaxElapsed
    /\ elapsed' = elapsed + 1
    /\ UNCHANGED <<frameIndex, rafId, isDestroyed, frameDuration, container,
                   decodedCount, scheduled, lastOp, lastArg, cancelled, looped,
                   drew, indexBefore>>
    /\ UNCHANGED <<deltaVars, pipeVars, binVars, appVars, varintVars, lutVars, convertVars, rendererVars, predecodeVars, heroVars>>

PlayerNext ==
    \/ Play
    \/ \E id \in 1..MaxCallbacks : AnimationFrame(id)
    \/ Pause
    \/ \E i \in (-1)..(MaxFrames + 1) : Seek(i)
    \/ \E d \in Durations : SetSpeed(d)
    \/ Destroy
    \/ TimePasses

(***************************************************************************)
(* main.ts (ASCIIVideoConverter) and its worker (ascii.worker.ts)          *)
(***************************************************************************)

\* The most messages in a queue between the page and the worker.
MaxQueue == 3

\* The largest value of frameSkipCount that is told apart.
MaxSkips == 2

AppColorModes == {"mono", "color", "palette"}

\* The fields processFrame assigns.  currentFrame is "none" (null), "main" (a
\* frame converted on the main thread) or "worker" (one built from a worker
\* result).
AppState ==
    [pendingFrame |-> pendingFrame, currentFrame |-> currentFrame,
     workerInbox |-> workerInbox, currentColorMode |-> currentColorMode]

\* Lines 251-276.
processFrame(s) ==
    IF useWorker /\ worker /\ s.currentColorMode = "mono"
    THEN [s EXCEPT !.pendingFrame = TRUE,
                   !.workerInbox = Append(@, "render")]
    ELSE [s EXCEPT !.currentFrame = "main"]

AssignApp(s) ==
    /\ pendingFrame' = s.pendingFrame
    /\ currentFrame' = s.currentFrame
    /\ workerInbox' = s.workerInbox
    /\ currentColorMode' = s.currentColorMode

AppIdle ==
    /\ useWorker = FALSE /\ pendingFrame = FALSE /\ currentColorMode = "mono"
    /\ videoLoaded = FALSE /\ videoPlaying = FALSE /\ firstFrameTimer = FALSE
    /\ currentFrame = "none" /\ frameSkipCount = 0 /\ worker = FALSE
    /\ workerInbox = <<>> /\ workerOutbox = <<>> /\ appOp = "idle"

\* Lines 24-72: after the constructor; initWorker either created the worker
\* or caught the failure.
AppInit ==
    /\ worker \in BOOLEAN /\ useWorker = worker
    /\ pendingFrame = FALSE /\ currentColorMode = "mono"
    /\ videoLoaded = FALSE /\ videoPlaying = FALSE /\ firstFrameTimer = FALSE
    /\ currentFrame = "none" /\ frameSkipCount = 0
    /\ workerInbox = <<>> /\ workerOutbox = <<>> /\ appOp = "new"

\* Lines 218-233: onVideoLoaded.
VideoLoaded ==
    /\ ~firstFrameTimer
    /\ videoLoaded' = TRUE
    /\ firstFrameTimer' = TRUE
    /\ appOp' = "onVideoLoaded"
    /\ UNCHANGED <<useWorker, pendingFrame, currentColorMode, videoPlaying,
                   currentFrame, frameSkipCount, worker, workerInbox, workerOutbox>>
    /\ UNCHANGED <<deltaVars, pipeVars, binVars, playerVars, varintVars, lutVars, convertVars, rendererVars, predecodeVars, heroVars>>

\* Lines 228-231: the timeout of onVideoLoaded.
FirstFrameTimeout ==
    /\ firstFrameTimer
    /\ Len(workerInbox) < MaxQueue
    /\ firstFrameTimer' = FALSE
    /\ AssignApp(processFrame(AppState))
    /\ appOp' = "firstFrame"
    /\ UNCHANGED <<useWorker, videoLoaded, videoPlaying, frameSkipCount, worker,
                   workerOutbox>>
    /\ UNCHANGED <<deltaVars, pipeVars, binVars, playerVars, varintVars, lutVars, convertVars, rendererVars, predecodeVars, heroVars>>

\* Lines 367-372 (VideoProcessor.play, lines 114-126).
AppPlay ==
    /\ videoPlaying' = (videoLoaded \/ videoPlaying)
    /\ appOp' = "play"
    /\ UNCHANGED <<useWorker, pendingFrame, currentColorMode, videoLoaded,
                   firstFrameTimer, currentFrame, frameSkipCount, worker,
                   workerInbox, workerOutbox>>
    /\ UNCHANGED <<deltaVars, pipeVars, binVars, playerVars, varintVars, lutVars, convertVars, rendererVars, predecodeVars, heroVars>>

\* Lines 377-381 (VideoProcessor.pause, lines 129-136).
AppPause ==
    /\ videoPlaying' = FALSE
    /\ appOp' = "pause"
    /\ UNCHANGED <<useWorker, pendingFrame, currentColorMode, videoLoaded,
                   firstFrameTimer, currentFrame, frameSkipCount, worker,
                   workerInbox, workerOutbox>>
    /\ UNCHANGED <<deltaVars, pipeVars, binVars, playerVars, varintVars, lutVars, convertVars, rendererVars, predecodeVars, heroVars>>

\* Lines 238-246: processFrameThrottled, called by the video processor with
\* each frame of a playing video.
VideoFrame ==
    /\ videoPlaying
    /\ Len(workerInbox) < MaxQueue
    /\ IF useWorker /\ pendingFrame
       THEN /\ frameSkipCount < MaxSkips
            /\ frameSkipCount' = frameSkipCount + 1
            /\ appOp' = "frameDropped"
            /\ UNCHANGED <<pendingFrame, currentFrame, workerInbox, currentColorMode>>
       ELSE /\ AssignApp(processFrame(AppState))
            /\ appOp' = "frame"
            /\ UNCHANGED frameSkipCount
    /\ UNCHANGED <<useWorker, videoLoaded, videoPlaying, firstFrameTimer, worker,
                   workerOutbox>>
    /\ UNCHANGED <<deltaVars, pipeVars, binVars, playerVars, varintVars, lutVars, convertVars, rendererVars, predecodeVars, heroVars>>

\* Lines 328-362: handleControlChange.
ControlChange(mode) ==
    LET posted == IF worker THEN Append(workerInbox, "setOptions") ELSE workerInbox
        s == [AppState EXCEPT !.currentColorMode = mode, !.workerInbox = posted]
    IN  /\ Len(workerInbox) + 1 < MaxQueue
        /\ AssignApp(IF videoLoaded /\ ~videoPlaying THEN processFrame(s) ELSE s)
        /\ appOp' = "controlChange"
        /\ UNCHANGED <<useWorker, videoLoaded, videoPlaying, firstFrameTimer,
                       frameSkipCount, worker, workerOutbox>>
        /\ UNCHANGED <<deltaVars, pipeVars, binVars, playerVars, varintVars, lutVars, convertVars, rendererVars, predecodeVars, heroVars>>

\* The worker's onmessage (worker lines 147-171): setOptions is not answered,
\* a render is answered with a frame.
WorkerMessage ==
    /\ workerInbox # <<>>
    /\ Len(workerOutbox) < MaxQueue
    /\ workerInbox' = Tail(workerInbox)
    /\ IF Head(workerInbox) = "render"
       THEN workerOutbox' = Append(workerOutbox, "frame")
       ELSE UNCHANGED workerOutbox
    /\ UNCHANGED <<useWorker, pendingFrame, currentColorMode, videoLoaded,
                   videoPlaying, firstFrameTimer, currentFrame, frameSkipCount,
                   worker, appOp>>
    /\ UNCHANGED <<deltaVars, pipeVars, binVars, playerVars, varintVars, lutVars, convertVars, rendererVars, predecodeVars, heroVars>>

\* Lines 56-60 and 77-96: worker.onmessage, handleWorkerFrame.
HandleWorkerFrame ==
    /\ workerOutbox # <<>>
    /\ workerOutbox' = Tail(workerOutbox)
    /\ pendingFrame' = FALSE
    /\ currentFrame' = "worker"
    /\ appOp' = "workerFrame"
    /\ UNCHANGED <<useWorker, currentColorMode, videoLoaded, videoPlaying,
                   firstFrameTimer, frameSkipCount, worker, workerInbox>>
    /\ UNCHANGED <<deltaVars, pipeVars, binVars, playerVars, varintVars, lutVars, convertVars, rendererVars, predecodeVars, heroVars>>

\* Lines 62-65: worker.onerror.  The error event reports an exception the
\* worker did not catch: the message its handler was given is taken and not
\* answered.
WorkerError ==
    /\ worker
    /\ workerInbox # <<>>
    /\ workerInbox' = Tail(workerInbox)
    /\ useWorker' = FALSE
    /\ appOp' = "workerError"
    /\ UNCHANGED <<pendingFrame, currentColorMode, videoLoaded, videoPlaying,
                   firstFrameTimer, currentFrame, frameSkipCount, worker,
                   workerOutbox>>
    /\ UNCHANGED <<deltaVars, pipeVars, binVars, playerVars, varintVars, lutVars, convertVars, rendererVars, predecodeVars, heroVars>>

\* Lines 386-418: reset.
Reset ==
    /\ videoPlaying' = FALSE
    /\ videoLoaded' = FALSE
    /\ currentFrame' = "none"
    /\ frameSkipCount' = 0
    /\ appOp' = "reset"
    /\ UNCHANGED <<useWorker, pendingFrame, currentColorMode, firstFrameTimer,
                   worker, workerInbox, workerOutbox>>
    /\ UNCHANGED <<deltaVars, pipeVars, binVars, playerVars, varintVars, lutVars, convertVars, rendererVars, predecodeVars, heroVars>>

AppNext ==
    \/ VideoLoaded
    \/ FirstFrameTimeout
    \/ AppPlay
    \/ AppPause
    \/ VideoFrame
    \/ \E mode \in AppColorModes : ControlChange(mode)
    \/ WorkerMessage
    \/ HandleWorkerFrame
    \/ WorkerError
    \/ Reset

(***************************************************************************)
(* SpecVarInt: encodeVarInt (compress.ts, 74-82) followed by decodeVarInt  *)
(* (unnamed/part_000, 30-44) on one unsigned 32-bit integer                *)
(***************************************************************************)

\* Lines 74-82 on the 32-bit pattern of n (the set of its bits that are 1),
\* for 0 <= n < 2^32: n > 127 asks for a bit above bit 6, (n & 0x7f) | 0x80 is
\* the low seven bits plus 128, and n >>>= 7 moves every bit down by seven.
RECURSIVE encodeVarIntU32(_)
encodeVarIntU32(bits) ==
    LET low == SumBits(bits \cap (0..6))
    IN  IF \E b \in bits : b >= 7
        THEN <<low + 128>> \o encodeVarIntU32({ b - 7 : b \in { x \in bits : x >= 7 } })
        ELSE <<low>>

\* The bits the integers explored are made of: the ends of the five 7-bit
\* groups and bit 30.
VarIntBits == {0, 6, 7, 13, 14, 20, 21, 27, 28, 30, 31}

NoVarInt == [value |-> 0, bytesRead |-> 0]

VarIntIdle ==
    /\ vPc = "idle"
    /\ vN = {}
    /\ vBytes = <<>>
    /\ vOut = NoVarInt

VarIntInit ==
    /\ vPc = "start"
    /\ vN \in SUBSET VarIntBits
    /\ vBytes = <<>>
    /\ vOut = NoVarInt

EncodeVarIntStep ==
    /\ vPc = "start"
    /\ vBytes' = encodeVarIntU32(vN)
    /\ vPc' = "encoded"
    /\ UNCHANGED <<vN, vOut>>
    /\ UNCHANGED <<deltaVars, pipeVars, binVars, playerVars, appVars, lutVars, convertVars, rendererVars, predecodeVars, heroVars>>

DecodeVarIntStep ==
    /\ vPc = "encoded"
    /\ vOut' = decodeVarInt(vBytes, 0)
    /\ vPc' = "decoded"
    /\ UNCHANGED <<vN, vBytes>>
    /\ UNCHANGED <<deltaVars, pipeVars, binVars, playerVars, appVars, lutVars, convertVars, rendererVars, predecodeVars, heroVars>>

VarIntNext == EncodeVarIntStep \/ DecodeVarIntStep


(***************************************************************************)
(* The luminance tables: ASCIIRenderer.buildLumLUT (ASCIIRenderer.ts,      *)
(* 116-127), the worker's getCharIndex (unnamed/part_001, 52-58) and the   *)
(* table of convertToASCII (compress.ts, 532-536)                          *)
(***************************************************************************)

\* Math.min(Math.floor((adjusted * rampLen) / 256), rampLen - 1), as a number.
LumIndex(lum, rampLen, invert) ==
    LET adjusted == IF invert THEN 255 - lum ELSE lum
    IN  Min((adjusted * rampLen) \div 256, rampLen - 1)

\* ASCIIRenderer.ts 116-127: lumToCharLUT is a Uint8Array(256), so each entry
\* is stored modulo 256.
buildLumLUT(rampLen, invert) ==
    [k \in 1..256 |-> U8(LumIndex(k - 1, rampLen, invert))]

\* part_001 52-58: (adjusted * rampLength) >> 8 is the floor of the quotient
\* for these products, all below 2^31; the result is a number, not a table
\* entry.
getCharIndex(lum, rampLength, invert) == LumIndex(lum, rampLength, invert)

\* compress.ts 532-536: lumToChar, a Uint8Array(256) without inversion.
lumToChar(rampLen) ==
    [k \in 1..256 |-> U8(LumIndex(k - 1, rampLen, FALSE))]

(***************************************************************************)
(* SpecLut: the tables built for one ramp length and one invert flag       *)
(***************************************************************************)

\* The longest ramp explored.
MaxRampLen == 300

LutIdle ==
    /\ lPc = "idle"
    /\ lRampLen = 0
    /\ lInvert = FALSE
    /\ lTable = <<>>
    /\ lWorker = <<>>

LutInit ==
    /\ lPc = "start"
    /\ lRampLen \in 1..MaxRampLen
    /\ lInvert \in BOOLEAN
    /\ lTable = <<>>
    /\ lWorker = <<>>

\* The renderer's table for the ramp and the flag.
BuildLumLUTStep ==
    /\ lPc = "start"
    /\ lTable' = buildLumLUT(lRampLen, lInvert)
    /\ lPc' = "renderer"
    /\ UNCHANGED <<lRampLen, lInvert, lWorker>>
    /\ UNCHANGED <<deltaVars, pipeVars, binVars, playerVars, appVars, varintVars, convertVars, rendererVars, predecodeVars, heroVars>>

\* The worker's index for every luminance 0..255.
GetCharIndexStep ==
    /\ lPc = "renderer"
    /\ lWorker' = [k \in 1..256 |-> getCharIndex(k - 1, lRampLen, lInvert)]
    /\ lPc' = "worker"
    /\ UNCHANGED <<lRampLen, lInvert, lTable>>
    /\ UNCHANGED <<deltaVars, pipeVars, binVars, playerVars, appVars, varintVars, convertVars, rendererVars, predecodeVars, heroVars>>

LutNext == BuildLumLUTStep \/ GetCharIndexStep


(***************************************************************************)
(* compress.ts: convertToASCII (514-588)                                   *)
(***************************************************************************)

\* Rec. 709 luminance coefficients scaled by 256.
LUMA_R == 54
LUMA_G == 183
LUMA_B == 19

\* (LUMA_R * r + LUMA_G * g + LUMA_B * b) >> 8
Luminance(r, g, b) == (LUMA_R * r + LUMA_G * g + LUMA_B * b) \div 256

\* A raster is given by its size and the rule of its pixels: "gray" has
\* R = G = B = v everywhere, "bars" changes with x and y.
Raster(width, height, kind, v) ==
    [width |-> width, height |-> height, kind |-> kind, v |-> v]

\* data[i], data[i + 1], data[i + 2] of the pixel at (x, y).
Pixel(raster, x, y) ==
    IF raster.kind = "gray"
    THEN <<raster.v, raster.v, raster.v>>
    ELSE <<(x * 7 + raster.v) % 256, (x * 13 + y * 32) % 256, ((x + y) * 40) % 256>>

\* The pixels visited by the loops "for (y = baseY; y < endY; y += step)
\* for (x = baseX; x < endX; x += step)".
SamplePoints(baseX, endX, baseY, endY, step) ==
    { p \in (baseX..(endX - 1)) \X (baseY..(endY - 1)) :
        (p[1] - baseX) % step = 0 /\ (p[2] - baseY) % step = 0 }

\* totalR, totalG or totalB over the pixels visited.
RECURSIVE SumChannel(_, _, _)
SumChannel(raster, points, channel) ==
    IF points = {} THEN 0
    ELSE LET p == CHOOSE q \in points : TRUE
         IN  Pixel(raster, p[1], p[2])[channel]
               + SumChannel(raster, points \ {p}, channel)

\* "if (sampleCount === 0) sampleCount = 1" and the three floored averages.
CellAverage(raster, points) ==
    LET sampleCount == IF points = {} THEN 1 ELSE Cardinality(points)
    IN  [c \in 1..3 |-> SumChannel(raster, points, c) \div sampleCount]

\* Math.floor(Math.sqrt(area / 16))
SqrtStep(area) ==
    CHOOSE s \in 0..area : 16 * s * s <= area /\ area < 16 * (s + 1) * (s + 1)

\* Lines 542-569 for one cell: cellW = width / cols and cellH = 2 * cellW are
\* kept as fractions over cols, which is what the floating-point products and
\* sums give when width / cols is a power of two, as in the rasters explored.
ConvertCell(raster, cols, row, col) ==
    LET baseY == (row * 2 * raster.width) \div cols
        endY == Min((baseY * cols + 2 * raster.width) \div cols, raster.height)
        baseX == (col * raster.width) \div cols
        endX == Min((baseX * cols + raster.width) \div cols, raster.width)
        step == Max(1, SqrtStep((endX - baseX) * (endY - baseY)))
    IN  CellAverage(raster, SamplePoints(baseX, endX, baseY, endY, step))

NoGrid == [ok |-> FALSE, error |-> "", chars |-> <<>>, colors |-> <<>>,
           rows |-> 0, cols |-> 0]

\* The call throws.
ConvertFailure(error) == [NoGrid EXCEPT !.error = error]

\* convertToASCII(imageData, options) for width >= 0 and height >= 0.  With
\* width = 0 the cell size is 0 or NaN, rows is Infinity or NaN and
\* "new Array(totalChars)" throws a RangeError.  With cols = 0 and width > 0
\* the cell size is Infinity and rows is 0.  With cols < 0 rows is negative,
\* totalChars positive, and the loops do not run: the symbols join to the
\* empty string and the colours stay 0.
convertToASCII(imageData, options) ==
    IF imageData.width = 0 THEN ConvertFailure("RangeError")
    ELSE
    LET cols == options.cols
        ramp == options.ramp
        rows == IF cols = 0 THEN 0
                ELSE (imageData.height * cols) \div (2 * imageData.width)
        totalChars == rows * cols
        cells == IF rows > 0 /\ cols > 0 THEN totalChars ELSE 0
        table == lumToChar(Len(ramp))
        avg == [k \in 1..cells |->
                  ConvertCell(imageData, cols, (k - 1) \div cols, (k - 1) % cols)]
        lum == [k \in 1..cells |-> Luminance(avg[k][1], avg[k][2], avg[k][3])]
    IN  [ok |-> TRUE,
         error |-> "",
         chars |-> [k \in 1..cells |-> At(ramp, table[lum[k] + 1])],
         colors |-> [k \in 1..(3 * totalChars) |->
                       IF k <= 3 * cells
                       THEN U8(avg[((k - 1) \div 3) + 1][((k - 1) % 3) + 1])
                       ELSE 0],
         rows |-> rows,
         cols |-> cols]

(***************************************************************************)
(* SpecConvert: one call of convertToASCII                                 *)
(***************************************************************************)

\* The gray values explored: the ends, the middle, and the two sides of the
\* first step of the 7-symbol ramp (36 * 7 < 256 <= 37 * 7).
GrayValues == {0, 36, 37, 128, 255}

ConvertRasters ==
    { Raster(w, h, "gray", v) : w \in {0, 1, 2, 4}, h \in {0, 2, 4}, v \in GrayValues }
    \cup { Raster(w, h, "bars", 8) : w \in {0, 1, 2, 4}, h \in {0, 2, 4} }

\* options.cols as parseInt gives it, and options.ramp: ' .:+*#@', '01', '#'.
ConvertOptions ==
    [cols : {-1, 0, 1, 2, 4}, ramp : {DEFAULT_RAMP, <<48, 49>>, <<35>>}]

ConvertIdle ==
    /\ cPc = "idle"
    /\ cImage = Raster(0, 0, "gray", 0)
    /\ cOptions = [cols |-> 0, ramp |-> <<>>]
    /\ cResult = NoGrid

ConvertInit ==
    /\ cPc = "start"
    /\ cImage \in ConvertRasters
    /\ cOptions \in ConvertOptions
    /\ cResult = NoGrid

ConvertStep ==
    /\ cPc = "start"
    /\ cResult' = convertToASCII(cImage, cOptions)
    /\ cPc' = "done"
    /\ UNCHANGED <<cImage, cOptions>>
    /\ UNCHANGED <<deltaVars, pipeVars, binVars, playerVars, appVars, varintVars, lutVars, rendererVars, predecodeVars, heroVars>>

ConvertNext == ConvertStep


(***************************************************************************)
(* ASCIIRenderer (core/ASCIIRenderer.ts) and the worker's converter        *)
(* (unnamed/part_001): options, tables and reusable buffers                *)
(***************************************************************************)

\* The fields of the converter that setOptions and render assign.  The worker
\* has no ramp string and no table: it keeps rampCodes and computes the index
\* per cell.  A buffer that is still null is the empty sequence: it is
\* replaced before its first use.
RendererState ==
    [cols |-> rCols, ramp |-> rRamp, invert |-> rInvert, rampCodes |-> rRampCodes,
     lumToCharLUT |-> rLut, lastRows |-> rLastRows, lastCols |-> rLastCols,
     charCodesBuffer |-> rCharBuf, colorsBuffer |-> rColorBuf]

\* A Uint8Array of the character codes.
CodesOf(ramp) == [k \in 1..Len(ramp) |-> U8(ramp[k])]

\* this.buildLumLUT()
RebuildLUT(s) ==
    [s EXCEPT !.lumToCharLUT = buildLumLUT(Len(s.ramp), s.invert)]

\* Lines 108-114.
updateRampCodes(s) == RebuildLUT([s EXCEPT !.rampCodes = CodesOf(s.ramp)])

\* Lines 166-168.
setCols(s, options) ==
    IF "cols" \in options.has
    THEN [s EXCEPT !.cols = Max(20, Min(200, options.cols))]
    ELSE s

\* Lines 169-174 without the call of updateRampCodes.
setRampNoRebuild(s, options) ==
    IF "ramp" \in options.has
    THEN [s EXCEPT !.ramp = options.ramp]
    ELSE s

\* Lines 169-174; the ramp is given as its string, a name of ASCII_RAMPS
\* being replaced by the string it names.
setRamp(s, options) ==
    IF "ramp" \in options.has
    THEN updateRampCodes([s EXCEPT !.ramp = options.ramp])
    ELSE s

\* Lines 178-181 without the call of buildLumLUT.
setInvertNoRebuild(s, options) ==
    IF "invert" \in options.has
    THEN [s EXCEPT !.invert = options.invert]
    ELSE s

\* Lines 178-181.
setInvert(s, options) ==
    IF "invert" \in options.has
    THEN RebuildLUT([s EXCEPT !.invert = options.invert])
    ELSE s

\* Lines 165-182; colorMode does not enter render.
setOptions(s, options) == setInvert(setRamp(setCols(s, options), options), options)

\* aspectRatio.ts 20-30 (and calculateGrid, part_001 60-65) for a positive
\* width and positive cols: rows = floor(height / (2 * width / cols)).
calculateSamplingGrid(videoWidth, videoHeight, targetCols) ==
    [cols |-> targetCols, rows |-> (videoHeight * targetCols) \div (2 * videoWidth)]

\* Lines 208-209 of render.
RenderStep(cellArea) ==
    IF cellArea > 200 THEN 4 ELSE IF cellArea > 100 THEN 3
    ELSE IF cellArea > 50 THEN 2 ELSE 1

\* Lines 214-245 of render for one cell.
RenderCell(raster, cols, row, col) ==
    LET cellW == raster.width \div cols
        cellH == (2 * raster.width) \div cols
        baseY == (row * 2 * raster.width) \div cols
        endY == Min(baseY + cellH, raster.height)
        baseX == (col * raster.width) \div cols
        endX == Min(baseX + cellW, raster.width)
    IN  CellAverage(raster, SamplePoints(baseX, endX, baseY, endY,
                                         RenderStep(cellW * cellH)))

\* part_001 86-127 for one cell: the loops stop at the raster's edge, and
\* total * (1 / sampleCount) is the exact quotient for the sample counts of
\* the rasters explored (powers of two); without a sample it is NaN, and
\* NaN | 0 is 0.
WorkerCell(raster, cols, row, col) ==
    LET cellW == raster.width \div cols
        cellH == (2 * raster.width) \div cols
        baseY == (row * 2 * raster.width) \div cols
        endY == Min(baseY + cellH, raster.height)
        baseX == (col * raster.width) \div cols
        endX == Min(baseX + cellW, raster.width)
    IN  CellAverage(raster, SamplePoints(baseX, endX, baseY, endY,
                                         IF cellW * cellH > 64 THEN 2 ELSE 1))

\* Lines 196-201 of render (part_001 76-81): new buffers when the grid's shape
\* changed.
Reallocate(s, grid) ==
    IF s.lastRows # grid.rows \/ s.lastCols # grid.cols
    THEN [s EXCEPT !.charCodesBuffer = Zeros(grid.rows * grid.cols),
                   !.colorsBuffer = Zeros(3 * grid.rows * grid.cols),
                   !.lastRows = grid.rows,
                   !.lastCols = grid.cols]
    ELSE s

\* The stores of the cell loop into the two buffers: a store beyond a
\* buffer's end is ignored.
StoreCells(s, totalChars, codes, avg) ==
    [s EXCEPT
       !.charCodesBuffer =
          [k \in 1..Len(s.charCodesBuffer) |->
             IF k <= totalChars THEN U8(OrZero(codes[k])) ELSE s.charCodesBuffer[k]],
       !.colorsBuffer =
          [k \in 1..Len(s.colorsBuffer) |->
             IF k <= 3 * totalChars
             THEN U8(avg[((k - 1) \div 3) + 1][((k - 1) % 3) + 1])
             ELSE s.colorsBuffer[k]]]

\* ASCIIRenderer.render (187-264): the converter after the call.
render(s, imageData) ==
    LET grid == calculateSamplingGrid(imageData.width, imageData.height, s.cols)
        totalChars == grid.rows * grid.cols
        avg == [k \in 1..totalChars |->
                  RenderCell(imageData, grid.cols, (k - 1) \div grid.cols,
                             (k - 1) % grid.cols)]
        codes == [k \in 1..totalChars |->
                    At(s.rampCodes,
                       s.lumToCharLUT[Luminance(avg[k][1], avg[k][2], avg[k][3]) + 1])]
    IN  StoreCells(Reallocate(s, grid), totalChars, codes, avg)

\* processFrame of the worker (part_001 67-145): the converter after the call.
workerProcessFrame(s, imageData) ==
    LET grid == calculateSamplingGrid(imageData.width, imageData.height, s.cols)
        totalChars == grid.rows * grid.cols
        avg == [k \in 1..totalChars |->
                  WorkerCell(imageData, grid.cols, (k - 1) \div grid.cols,
                             (k - 1) % grid.cols)]
        codes == [k \in 1..totalChars |->
                    At(s.rampCodes,
                       getCharIndex(Luminance(avg[k][1], avg[k][2], avg[k][3]),
                                    Len(s.rampCodes), s.invert))]
    IN  StoreCells(Reallocate(s, grid), totalChars, codes, avg)

\* The frame handed out: render returns the buffers, the worker copies of
\* them; either way these are the grids at the time of the return.
FrameOf(s) ==
    [charCodes |-> s.charCodesBuffer, colors |-> s.colorsBuffer,
     rows |-> s.lastRows, cols |-> s.lastCols]

\* part_001 150-156: the worker's setOptions message carries the three options.
workerSetOptions(s, options) ==
    [s EXCEPT !.cols = options.cols,
              !.rampCodes = CodesOf(options.ramp),
              !.invert = options.invert]

(***************************************************************************)
(* SpecRenderer: one converter (the renderer or the worker) under          *)
(* setOptions and render calls                                             *)
(***************************************************************************)

\* The rasters converted: two of 80 x 8 pixels, one of them uniform, and one
\* of 40 x 4.
RenderRasters ==
    {Raster(80, 8, "bars", 8), Raster(80, 8, "gray", 128), Raster(40, 4, "bars", 8)}

\* The raster whose conversions are compared.
ReferenceRaster == Raster(80, 8, "bars", 8)

\* The options of a setOptions call: any subset of cols, ramp and invert.
RenderOptions ==
    { [has |-> h,
       cols |-> IF "cols" \in h THEN c ELSE 0,
       ramp |-> IF "ramp" \in h THEN r ELSE <<>>,
       invert |-> IF "invert" \in h THEN i ELSE FALSE] :
        h \in SUBSET {"cols", "ramp", "invert"},
        c \in {10, 20}, r \in {DEFAULT_RAMP, <<48, 49>>}, i \in BOOLEAN }

\* What a conversion depends on by contract: the raster and the options.
RenderKey(s, imageData) ==
    [image |-> imageData, cols |-> s.cols, ramp |-> s.ramp,
     rampCodes |-> s.rampCodes, invert |-> s.invert]

NoFrame == [charCodes |-> <<>>, colors |-> <<>>, rows |-> 0, cols |-> 0]

NoKey == [image |-> Raster(0, 0, "gray", 0), cols |-> 0, ramp |-> <<>>,
          rampCodes |-> <<>>, invert |-> FALSE]

\* The remembered conversion: out is the frame as it was returned, now is
\* what the arrays of that frame object hold at present, and live tells
\* whether they are still the converter's own buffers.
NoRef == [set |-> FALSE, key |-> NoKey, out |-> NoFrame, now |-> NoFrame,
          live |-> FALSE]

\* ASCIIRenderer.ts 257-263: render returns charCodes and colors, the
\* buffers themselves; part_001 139-144: the worker returns slice() copies.
ReturnsBuffers(kind) == kind = "renderer"

\* The arrays of a frame handed out earlier, after a later conversion left
\* the converter as s: buffers that were handed out and not replaced since
\* (lines 196-201) hold what the later conversion stored.
HeldAfter(ref, s) ==
    IF ref.set /\ ref.live
    THEN IF s.lastRows # rLastRows \/ s.lastCols # rLastCols
         THEN [ref EXCEPT !.live = FALSE]
         ELSE [ref EXCEPT !.now.charCodes = s.charCodesBuffer,
                          !.now.colors = s.colorsBuffer]
    ELSE ref

AssignRenderer(s) ==
    /\ rCols' = s.cols
    /\ rRamp' = s.ramp
    /\ rInvert' = s.invert
    /\ rRampCodes' = s.rampCodes
    /\ rLut' = s.lumToCharLUT
    /\ rLastRows' = s.lastRows
    /\ rLastCols' = s.lastCols
    /\ rCharBuf' = s.charCodesBuffer
    /\ rColorBuf' = s.colorsBuffer

RendererIdle ==
    /\ rKind = "idle"
    /\ rCols = 0 /\ rRamp = <<>> /\ rInvert = FALSE /\ rRampCodes = <<>>
    /\ rLut = <<>> /\ rLastRows = 0 /\ rLastCols = 0
    /\ rCharBuf = <<>> /\ rColorBuf = <<>>
    /\ rOp = "idle" /\ rIn = NoKey /\ rOut = NoFrame /\ rRef = NoRef
    /\ rBetween = FALSE

\* new ASCIIRenderer() (ASCIIRenderer.ts 50-81), or the worker's module state
\* (part_001 35-46).
RendererInit ==
    /\ rKind \in {"renderer", "worker"}
    /\ rCols = 80
    /\ rRamp = (IF rKind = "renderer" THEN DEFAULT_RAMP ELSE <<>>)
    /\ rInvert = FALSE
    /\ rRampCodes = CodesOf(DEFAULT_RAMP)
    /\ rLut = (IF rKind = "renderer" THEN buildLumLUT(Len(DEFAULT_RAMP), FALSE) ELSE <<>>)
    /\ rLastRows = 0 /\ rLastCols = 0
    /\ rCharBuf = <<>> /\ rColorBuf = <<>>
    /\ rOp = "new" /\ rIn = NoKey /\ rOut = NoFrame /\ rRef = NoRef
    /\ rBetween = FALSE

\* A call that changes something after the reference conversion was taken.
BetweenAfter(s) == rBetween \/ (rRef.set /\ s # RendererState)

RendererSetOptions(options) ==
    /\ rKind = "renderer"
    /\ \E s \in {setOptions(RendererState, options)} :
           AssignRenderer(s) /\ rBetween' = BetweenAfter(s)
    /\ rOp' = "setOptions"
    /\ UNCHANGED <<rKind, rIn, rOut, rRef>>
    /\ UNCHANGED <<deltaVars, pipeVars, binVars, playerVars, appVars, varintVars, lutVars, convertVars, predecodeVars, heroVars>>

WorkerSetOptions(options) ==
    /\ rKind = "worker"
    /\ options.has = {"cols", "ramp", "invert"}
    /\ \E s \in {workerSetOptions(RendererState, options)} :
           AssignRenderer(s) /\ rBetween' = BetweenAfter(s)
    /\ rOp' = "setOptions"
    /\ UNCHANGED <<rKind, rIn, rOut, rRef>>
    /\ UNCHANGED <<deltaVars, pipeVars, binVars, playerVars, appVars, varintVars, lutVars, convertVars, predecodeVars, heroVars>>

\* A conversion; the first conversion of the reference raster that is marked
\* is remembered with its options and its result.
RecordConversion(s, imageData, mark) ==
    LET key == RenderKey(RendererState, imageData)
    IN  /\ AssignRenderer(s)
        /\ rIn' = key
        /\ rOut' = FrameOf(s)
        /\ rOp' = "render"
        /\ rRef' = IF mark
                   THEN [set |-> TRUE, key |-> key, out |-> FrameOf(s),
                         now |-> FrameOf(s), live |-> ReturnsBuffers(rKind)]
                   ELSE HeldAfter(rRef, s)
        /\ rBetween' = IF mark THEN FALSE
                       ELSE rBetween \/ (rRef.set /\ key # rRef.key)

RendererRender(imageData, mark) ==
    /\ rKind = "renderer"
    /\ mark => (~rRef.set /\ imageData = ReferenceRaster)
    /\ \E s \in {render(RendererState, imageData)} : RecordConversion(s, imageData, mark)
    /\ UNCHANGED rKind
    /\ UNCHANGED <<deltaVars, pipeVars, binVars, playerVars, appVars, varintVars, lutVars, convertVars, predecodeVars, heroVars>>

\* The worker's render message (part_001 158-170).
WorkerRender(imageData, mark) ==
    /\ rKind = "worker"
    /\ mark => (~rRef.set /\ imageData = ReferenceRaster)
    /\ \E s \in {workerProcessFrame(RendererState, imageData)} :
           RecordConversion(s, imageData, mark)
    /\ UNCHANGED rKind
    /\ UNCHANGED <<deltaVars, pipeVars, binVars, playerVars, appVars, varintVars, lutVars, convertVars, predecodeVars, heroVars>>

RendererNext ==
    \/ \E options \in RenderOptions : RendererSetOptions(options)
    \/ \E options \in RenderOptions : WorkerSetOptions(options)
    \/ \E imageData \in RenderRasters, mark \in BOOLEAN : RendererRender(imageData, mark)
    \/ \E imageData \in RenderRasters, mark \in BOOLEAN : WorkerRender(imageData, mark)

(***************************************************************************)
(* preDecodeFrames step by step, with the colour arrays as heap objects    *)
(* (player.ts 54-101)                                                      *)
(***************************************************************************)

MaxPreFrames == 3

\* An array reference that is undefined.
NoRef0 == 0

\* new Uint8Array(...) and .slice(): a fresh object holding the given bytes.
HeapAlloc(heap, arr) == [heap |-> Append(heap, arr), ref |-> Len(heap) + 1]

\* Line 98 without the copy: the decoded frame holds the running array itself.
SnapshotColorsAlias(heap, cur) == [heap |-> heap, ref |-> cur]

\* Line 98: colors: currentColors ? currentColors.slice() : undefined.
SnapshotColors(heap, cur) ==
    IF cur = NoRef0 THEN [heap |-> heap, ref |-> NoRef0]
    ELSE HeapAlloc(heap, heap[cur])

\* The contents a colour reference stands for (undefined reads as <<>>).
Deref(heap, ref) == IF ref = NoRef0 THEN <<>> ELSE heap[ref]

PreAnimations ==
    { MakeAnimation(shape, mode, DEFAULT_RAMP, frames) :
        shape \in BinShapes, mode \in ColorModes,
        frames \in SeqsUpTo(BinFrames, MaxPreFrames) }

PreDecodeIdle ==
    /\ pPc = "idle" /\ pAnim = NoAnimation /\ pChars = <<>> /\ pCur = NoRef0
    /\ pHeap = <<>> /\ pDecoded = <<>> /\ pTaken = <<>>

\* Lines 55-63: the running buffers before the first record.
PreDecodeInit ==
    /\ pPc = "loop"
    /\ pAnim \in PreAnimations
    /\ pChars = <<>>
    /\ pCur = IF pAnim.meta.colorMode # "mono" THEN 1 ELSE NoRef0
    /\ pHeap = IF pAnim.meta.colorMode # "mono"
               THEN <<Zeros(pAnim.meta.cols * pAnim.meta.rows * 3)>> ELSE <<>>
    /\ pDecoded = <<>>
    /\ pTaken = <<>>

\* Lines 65-100: one iteration of the loop over animation.frames.  pTaken
\* records what each snapshot held at the moment it was pushed.
PreDecodeStep ==
    /\ pPc = "loop"
    /\ Len(pDecoded) < Len(pAnim.frames)
    /\ LET frame == pAnim.frames[Len(pDecoded) + 1]
           includeColors == pAnim.meta.colorMode # "mono"
           chars == IF frame.type = "full" THEN frame.chars
                    ELSE ArrayJoin(ApplyCharChanges(ArrayOf(pChars), frame.changes))
           applied ==
               IF frame.type = "full"
               THEN IF includeColors /\ frame.hasColors
                    THEN HeapAlloc(pHeap, [k \in 1..Len(frame.colors) |-> U8(frame.colors[k])])
                    ELSE [heap |-> pHeap, ref |-> pCur]
               ELSE IF includeColors /\ pCur # NoRef0
                    THEN [heap |-> [pHeap EXCEPT ![pCur] = ApplyColorChanges(@, frame.changes)],
                          ref |-> pCur]
                    ELSE [heap |-> pHeap, ref |-> pCur]
           snap == SnapshotColors(applied.heap, applied.ref)
           text == FormatLines(chars, pAnim.meta.cols, 0)
       IN  /\ pChars' = chars
           /\ pCur' = applied.ref
           /\ pHeap' = snap.heap
           /\ pDecoded' = Append(pDecoded, [text |-> text, colors |-> snap.ref])
           /\ pTaken' = Append(pTaken, [text |-> text,
                                        colors |-> Deref(snap.heap, snap.ref)])
    /\ UNCHANGED <<pPc, pAnim>>
    /\ UNCHANGED <<deltaVars, pipeVars, binVars, playerVars, appVars, varintVars, lutVars, convertVars, rendererVars, heroVars>>

\* Line 102: return decoded.
PreDecodeReturn ==
    /\ pPc = "loop"
    /\ Len(pDecoded) = Len(pAnim.frames)
    /\ pPc' = "done"
    /\ UNCHANGED <<pAnim, pChars, pCur, pHeap, pDecoded, pTaken>>
    /\ UNCHANGED <<deltaVars, pipeVars, binVars, playerVars, appVars, varintVars, lutVars, convertVars, rendererVars, heroVars>>

PreDecodeNext == PreDecodeStep \/ PreDecodeReturn

(***************************************************************************)
(* SpecHero: ASCIIHero around its player (ASCIIHero.ts 28-178)             *)
(***************************************************************************)

\* The children of the hero's container element.
HeroChildren == {"ascii", "overlay"}

HeroIdle ==
    /\ hPc = "idle" /\ hAutoplay = FALSE /\ hReducedMotion = FALSE
    /\ hFallback = FALSE /\ hHasPlayer = FALSE /\ hChildren = {}
    /\ hDestroyedAt = "never"

\* Lines 36-68: the constructor, up to the await of init (line 76).  The
\* player's fields do not exist yet.
HeroInit ==
    /\ hPc = "loading"
    /\ hAutoplay \in BOOLEAN /\ hReducedMotion \in BOOLEAN /\ hFallback \in BOOLEAN
    /\ hHasPlayer = FALSE
    /\ hChildren = HeroChildren
    /\ hDestroyedAt = "never"
    /\ PlayerIdle

\* Lines 76-98: loadAnimation resolved with an animation of n frames; the
\* player is constructed on asciiElement and started.  play() on the new
\* player runs tick with elapsed = 0, below every frameDuration: it only
\* requests the first callback.  seek(0) renders frame 0.
HeroLoaded(n, d) ==
    /\ hPc = "loading"
    /\ hPc' = "ready"
    /\ hHasPlayer' = TRUE
    /\ isDestroyed' = FALSE
    /\ frameDuration' = d
    /\ decodedCount' = n
    /\ LET s == [frameIndex |-> 0, rafId |-> Null, scheduled |-> {},
                 elapsed |-> 0, container |-> <<>>, looped |-> FALSE,
                 drew |-> FALSE]
       IN  IF hAutoplay /\ ~hReducedMotion
           THEN Assign(requestAnimationFrame(s)) /\ lastOp' = "play"
           ELSE /\ Assign([s EXCEPT !.frameIndex = seekTarget(0, n),
                                    !.container = <<seekTarget(0, n)>>,
                                    !.drew = TRUE])
                /\ lastOp' = "seek"
    /\ cancelled' = FALSE
    /\ lastArg' = 0
    /\ indexBefore' = 0
    /\ UNCHANGED <<hAutoplay, hReducedMotion, hFallback, hChildren, hDestroyedAt>>
    /\ UNCHANGED <<deltaVars, pipeVars, binVars, appVars, varintVars, lutVars, convertVars, rendererVars, predecodeVars>>

\* Lines 99-108: loadAnimation rejected; showFallback appends the image to
\* the container.
HeroLoadFails ==
    /\ hPc = "loading"
    /\ hPc' = "failed"
    /\ hChildren' = IF hFallback THEN hChildren \cup {"img"} ELSE hChildren
    /\ UNCHANGED <<hAutoplay, hReducedMotion, hFallback, hHasPlayer, hDestroyedAt>>
    /\ UNCHANGED <<playerVars, deltaVars, pipeVars, binVars, appVars, varintVars, lutVars, convertVars, rendererVars, predecodeVars>>

\* Lines 137-139: this.player?.play().
HeroPlay == hHasPlayer /\ Play

\* Lines 144-146: this.player?.pause().
HeroPause == hHasPlayer /\ Pause

\* Lines 151-153: this.player?.setSpeed(speed).
HeroSetSpeed(d) == hHasPlayer /\ SetSpeed(d)

\* Lines 172-177, with player.destroy() (player.ts 245-250) when there is a
\* player.
HeroDestroy ==
    /\ IF hHasPlayer
       THEN /\ isDestroyed' = TRUE
            /\ Assign([pause(PlayerState) EXCEPT !.container = <<>>])
            /\ decodedCount' = 0
            /\ cancelled' = TRUE
            /\ lastOp' = "destroy"
            /\ lastArg' = 0
            /\ indexBefore' = frameIndex
            /\ UNCHANGED frameDuration
       ELSE UNCHANGED playerVars
    /\ hHasPlayer' = FALSE
    /\ hChildren' = {}
    /\ hDestroyedAt' = IF hDestroyedAt = "never" THEN hPc ELSE hDestroyedAt
    /\ UNCHANGED <<hPc, hAutoplay, hReducedMotion, hFallback>>
    /\ UNCHANGED <<deltaVars, pipeVars, binVars, appVars, varintVars, lutVars, convertVars, rendererVars, predecodeVars>>

\* The browser runs a callback of the player, or time passes; the player
\* exists once init has constructed it, whether or not the hero still refers
\* to it.
HeroAnimationFrame(id) == hPc = "ready" /\ AnimationFrame(id)

HeroTimePasses == hPc = "ready" /\ TimePasses

HeroNext ==
    \/ \E n \in 1..MaxFrames, d \in Durations : HeroLoaded(n, d)
    \/ HeroLoadFails
    \/ HeroPlay
    \/ HeroPause
    \/ \E d \in Durations : HeroSetSpeed(d)
    \/ HeroDestroy
    \/ \E id \in 1..MaxCallbacks : HeroAnimationFrame(id)
    \/ HeroTimePasses

(***************************************************************************)
(* Specifications                                                          *)
(***************************************************************************)

\* Each specification runs one part of the program and leaves the variables of
\* the other parts at rest.
InitDelta == DeltaInit /\ PipeIdle /\ BinIdle /\ PlayerIdle /\ AppIdle /\ VarIntIdle /\ LutIdle /\ ConvertIdle /\ RendererIdle /\ PreDecodeIdle /\ HeroIdle

SpecDelta == InitDelta /\ [][DeltaNext]_vars

InitPipeline == PipeInit /\ DeltaIdle /\ BinIdle /\ PlayerIdle /\ AppIdle /\ VarIntIdle /\ LutIdle /\ ConvertIdle /\ RendererIdle /\ PreDecodeIdle /\ HeroIdle

SpecPipeline == InitPipeline /\ [][PipeNext]_vars

InitBinary == BinInit /\ DeltaIdle /\ PipeIdle /\ PlayerIdle /\ AppIdle /\ VarIntIdle /\ LutIdle /\ ConvertIdle /\ RendererIdle /\ PreDecodeIdle /\ HeroIdle

SpecBinary == InitBinary /\ [][BinNext]_vars

InitPlayer == PlayerInit /\ DeltaIdle /\ PipeIdle /\ BinIdle /\ AppIdle /\ VarIntIdle /\ LutIdle /\ ConvertIdle /\ RendererIdle /\ PreDecodeIdle /\ HeroIdle

SpecPlayer == InitPlayer /\ [][PlayerNext]_vars

InitApp == AppInit /\ DeltaIdle /\ PipeIdle /\ BinIdle /\ PlayerIdle /\ VarIntIdle /\ LutIdle /\ ConvertIdle /\ RendererIdle /\ PreDecodeIdle /\ HeroIdle

SpecApp == InitApp /\ [][AppNext]_vars

\* The worker's event loop takes every message posted to it, and the page's
\* event loop dispatches every message the worker posted.
SpecAppLive ==
    InitApp /\ [][AppNext]_vars /\ WF_vars(WorkerMessage) /\ WF_vars(HandleWorkerFrame)

InitVarInt == VarIntInit /\ DeltaIdle /\ PipeIdle /\ BinIdle /\ PlayerIdle /\ AppIdle /\ LutIdle /\ ConvertIdle /\ RendererIdle /\ PreDecodeIdle /\ HeroIdle

SpecVarInt == InitVarInt /\ [][VarIntNext]_vars

InitLut == LutInit /\ AppIdle /\ BinIdle /\ DeltaIdle /\ PipeIdle /\ PlayerIdle /\ VarIntIdle /\ ConvertIdle /\ RendererIdle /\ PreDecodeIdle /\ HeroIdle

SpecLut == InitLut /\ [][LutNext]_vars

InitConvert == ConvertInit /\ AppIdle /\ BinIdle /\ DeltaIdle /\ LutIdle /\ PipeIdle /\ PlayerIdle /\ VarIntIdle /\ RendererIdle /\ PreDecodeIdle /\ HeroIdle

SpecConvert == InitConvert /\ [][ConvertNext]_vars

InitRenderer == RendererInit /\ AppIdle /\ BinIdle /\ ConvertIdle /\ DeltaIdle /\ LutIdle /\ PipeIdle /\ PlayerIdle /\ VarIntIdle /\ PreDecodeIdle /\ HeroIdle

SpecRenderer == InitRenderer /\ [][RendererNext]_vars

InitPreDecode == PreDecodeInit /\ DeltaIdle /\ PipeIdle /\ BinIdle /\ PlayerIdle /\ AppIdle /\ VarIntIdle /\ LutIdle /\ ConvertIdle /\ RendererIdle /\ HeroIdle
SpecPreDecode == InitPreDecode /\ [][PreDecodeNext]_vars

InitHero == HeroInit /\ DeltaIdle /\ PipeIdle /\ BinIdle /\ AppIdle /\ VarIntIdle /\ LutIdle /\ ConvertIdle /\ RendererIdle /\ PreDecodeIdle
SpecHero == InitHero /\ [][HeroNext]_vars

(***************************************************************************)
(* Claims                                                                  *)
(***************************************************************************)

\* The cells of dCurr that differ from dPrev: the symbol differs, or colours
\* are included and a channel differs.
DifferingCells ==
    { i \in 0..(Len(dCurr.chars) - 1) :
        \/ dCurr.chars[i + 1] # dPrev.chars[i + 1]
        \/ dInc /\ \E c \in 1..3 : dCurr.colors[3 * i + c] # dPrev.colors[3 * i + c] }

\* C2: the records the encode loop emits (frame N against frame N-1), applied
\* in order by the player's pre-decoder from unset buffers, reproduce every
\* input grid: one decoded frame per input, with the input's symbols and, when
\* colours are included, its colour bytes.
C2_PipelineReplay ==
    ePc = "played" =>
        /\ Len(eDecoded) = Len(eInputs)
        /\ \A n \in 1..Len(eInputs) :
            /\ TextSymbols(eDecoded[n].text) = eInputs[n].chars
            /\ eMode # "mono" => eDecoded[n].colors = eInputs[n].colors

C2_Witness ==
    /\ ePc = "played"
    /\ eMode = "rgb"
    /\ Len(eInputs) = 3
    /\ eFrames[2].type = "delta" /\ eFrames[2].changes # <<>>
    /\ eFrames[3].type = "delta" /\ eFrames[3].changes # <<>>
    /\ eInputs[3].colors # eInputs[2].colors
    /\ TextSymbols(eDecoded[3].text) = eInputs[3].chars
    /\ eDecoded[3].colors = eInputs[3].colors

\* C3: the record computeDelta returns for (prev, curr), applied to a copy of
\* prev, yields curr cell by cell (the symbols, and the colours when they are
\* included), whether the record is a delta or a full frame.
C3_DeltaApplies ==
    dPc = "applied" =>
        /\ dBuf.chars = dCurr.chars
        /\ dInc => dBuf.colors = dCurr.colors

C3_Witness ==
    /\ dPc = "applied"
    /\ dInc
    /\ dRec.type = "delta"
    /\ Len(dRec.changes) = 2
    /\ dPrev.colors # dCurr.colors
    /\ dPrev.chars # dCurr.chars
    /\ dBuf.chars = dCurr.chars
    /\ dBuf.colors = dCurr.colors

\* C4: when more than 40% of the cells differ, computeDelta returns a full
\* frame, never a delta.
C4_ThresholdFull ==
    (dPc # "start" /\ Cardinality(DifferingCells) * 5 > Len(dCurr.chars) * 2)
        => dRec.type = "full"

C4_Witness ==
    /\ dPc = "encoded"
    /\ Cardinality(DifferingCells) = 3
    /\ dPrev.chars = dCurr.chars
    /\ dRec.type = "full"

\* A delta's change indices are inside the grid and strictly increasing.
ChangesInOrder(changes, cells) ==
    /\ \A k \in 1..Len(changes) : changes[k].index >= 0 /\ changes[k].index < cells
    /\ \A k \in 1..(Len(changes) - 1) : changes[k].index < changes[k + 1].index

\* The data model of an Animation: a ramp of 1..255 symbols, frameCount frame
\* records, full frames of rows*cols symbols whose colours, when present, are
\* rows*cols triplets, and deltas with increasing in-grid indices.
IsAnimation(a) ==
    LET cells == a.meta.rows * a.meta.cols
    IN  /\ cells >= 1
        /\ Len(a.meta.ramp) \in 1..255
        /\ a.meta.frameCount = Len(a.frames)
        /\ \A n \in 1..Len(a.frames) :
            LET f == a.frames[n]
            IN  IF f.type = "full"
                THEN /\ Len(f.chars) = cells
                     /\ f.hasColors => Len(f.colors) = 3 * cells
                ELSE ChangesInOrder(f.changes, cells)

\* Every full frame of an animation with colours carries its colours.
FullFramesColored(a) ==
    a.meta.colorMode # "mono" =>
        \A n \in 1..Len(a.frames) : a.frames[n].type = "full" => a.frames[n].hasColors

BinDecodeDone == bPc \in {"decoded", "failed", "resolved"}

\* C1: for any Animation A, decodeBinary on the bytes of writeBinary(A)
\* succeeds and reproduces A's meta, and pre-decoding the decoded animation
\* yields the same resolved frames as pre-decoding A: the same symbols and,
\* when colorMode is not mono, the same colours.
C1_RoundTrip ==
    (bTamper = "none" /\ IsAnimation(bAnim)) =>
        /\ bPc # "failed"
        /\ bPc \in {"decoded", "resolved"} => bResult.animation.meta = bAnim.meta
        /\ bPc = "resolved" =>
            /\ Len(bResolvedB) = Len(bResolvedA)
            /\ \A n \in 1..Len(bResolvedA) :
                /\ n <= Len(bResolvedB)
                /\ bResolvedB[n].text = bResolvedA[n].text
                /\ bAnim.meta.colorMode # "mono" =>
                       bResolvedB[n].colors = bResolvedA[n].colors

\* C5: decoding a stream that ends before the ramp bytes or the frame bytes
\* it declares (here: a proper prefix, of at least the 32 header bytes, of
\* the stream written for an animation) fails and returns no Animation.
C5_TruncatedFails ==
    ( /\ BinDecodeDone
      /\ bTamper = "truncated"
      /\ Len(bBuffer) >= 32
      /\ IsAnimation(bAnim)
      /\ FullFramesColored(bAnim) )
        => (~bResult.ok /\ bResult.animation = NoAnimation)

\* C6: decodeBinary fails, and returns no Animation, for every byte stream
\* whose first four bytes are not the magic "ASCI".
C6_BadMagicFails ==
    (BinDecodeDone /\ ~(Len(bBuffer) >= 4 /\ SubSeq(bBuffer, 1, 4) = <<65, 83, 67, 73>>))
        => (~bResult.ok /\ bResult.error = "bad magic" /\ bResult.animation = NoAnimation)

C6_Witness ==
    /\ bPc = "failed"
    /\ bTamper = "magic"
    /\ Len(bBuffer) > 32
    /\ bBuffer[4] # 73
    /\ SubSeq(bBuffer, 1, 3) = <<65, 83, 67>>
    /\ ~bResult.ok
    /\ bResult.error = "bad magic"

\* C7: writeBinary writes nothing for an animation whose ramp has more than
\* 255 symbols.
C7_LongRampRejected ==
    Len(bAnim.meta.ramp) > 255 => bFile = <<>>

\* The render requests posted to the worker whose result the page has not
\* handled: those the worker has not taken, and those whose frame is on its
\* way back.
UnansweredRenders ==
    Cardinality({ k \in 1..Len(workerInbox) : workerInbox[k] = "render" })
        + Len(workerOutbox)

\* C8: at any time at most one conversion request posted to the worker is
\* unanswered.
C8_OneInFlight == UnansweredRenders <= 1

\* C9: the player is not playing after construction; play() on a live player
\* makes it playing, pause() makes it not playing, and neither pause() nor
\* play() moves frameIndex, so playback resumes from the frame it was paused
\* at.
C9_PlayerStates ==
    /\ lastOp = "new" => rafId = Null
    /\ (lastOp = "play" /\ ~isDestroyed) => (rafId # Null /\ rafId \in scheduled)
    /\ lastOp = "pause" => rafId = Null
    /\ lastOp \in {"pause", "play"} => frameIndex = indexBefore

\* Resumed from Paused at frame 2, after frame 1 was shown.
C9_Witness ==
    /\ lastOp = "play"
    /\ ~cancelled
    /\ frameIndex = 2
    /\ indexBefore = 2
    /\ container = <<1>>
    /\ rafId # Null
    /\ scheduled = {rafId}

\* C10: once pause() or destroy() has been called and until play() is called
\* again, the player is not playing and no callback renders a frame.
C10_CancelImmediate ==
    cancelled => (rafId = Null /\ (lastOp = "tick" => ~drew))

\* C11: seek(i) on a player with at least one decoded frame, for every integer
\* i (negative, in range, or at least the frame count), sets frameIndex to i
\* clamped to [0, length-1], renders that frame at once, and leaves rafId and
\* the scheduled callbacks as they were.
C11_SeekClamps ==
    [][(lastOp' = "seek" /\ decodedCount >= 1) =>
            /\ frameIndex' = (IF lastArg' < 0 THEN 0
                              ELSE IF lastArg' > decodedCount - 1
                                   THEN decodedCount - 1 ELSE lastArg')
            /\ drew'
            /\ container' = <<frameIndex'>>
            /\ rafId' = rafId
            /\ scheduled' = scheduled
            /\ frameDuration' = frameDuration
            /\ isDestroyed' = isDestroyed]_vars

\* A seek below 0 on a playing player of three frames that showed frame 2.
C11_Witness ==
    /\ lastOp = "seek"
    /\ lastArg = -1
    /\ decodedCount = 3
    /\ indexBefore = 2
    /\ frameIndex = 0
    /\ container = <<0>>
    /\ rafId # Null
    /\ rafId \in scheduled

\* C17: whenever at most 40% of the cells differ (exactly 40% and none
\* included), computeDelta returns a delta whose changes are exactly the
\* differing cells, one change per cell, each with the current symbol and,
\* when colours are included, the current red, green and blue.
C17_DeltaExact ==
    (dPc # "start" /\ Cardinality(DifferingCells) * 5 <= Len(dCurr.chars) * 2) =>
        /\ dRec.type = "delta"
        /\ Len(dRec.changes) = Cardinality(DifferingCells)
        /\ { dRec.changes[k].index : k \in 1..Len(dRec.changes) } = DifferingCells
        /\ \A k \in 1..Len(dRec.changes) :
            LET c == dRec.changes[k]
            IN  /\ c.char = dCurr.chars[c.index + 1]
                /\ dInc => /\ c.colorR = dCurr.colors[3 * c.index + 1]
                           /\ c.colorG = dCurr.colors[3 * c.index + 2]
                           /\ c.colorB = dCurr.colors[3 * c.index + 3]

\* Exactly 40% of the cells differ, one of them in its blue channel only.
C17_Witness ==
    /\ dPc = "encoded"
    /\ dInc
    /\ Cardinality(DifferingCells) * 5 = Len(dCurr.chars) * 2
    /\ Len(dCurr.chars) - 1 \in DifferingCells
    /\ dCurr.chars[Len(dCurr.chars)] = dPrev.chars[Len(dCurr.chars)]
    /\ dRec.type = "delta"
    /\ Len(dRec.changes) = Cardinality(DifferingCells)

\* Identical grids give a delta with an empty change list.
C17_WitnessIdentical ==
    /\ dPc = "encoded"
    /\ dPrev = dCurr
    /\ dRec = DeltaRecord(<<>>)

\* C18: the first frame record of the encode loop is a full frame whatever
\* the frame holds, and a delta record is only found at a position that has
\* a converted frame before it.
C18_FirstFull ==
    /\ Len(eFrames) = Len(eInputs)
    /\ Len(eFrames) >= 1 => eFrames[1].type = "full" /\ eFrames[1].chars = eInputs[1].chars
    /\ \A n \in 1..Len(eFrames) : eFrames[n].type = "delta" => n >= 2

\* A first frame equal to the frames after it is still full.
C18_Witness ==
    /\ Len(eFrames) = 3
    /\ eInputs[1] = eInputs[2]
    /\ eFrames[1].type = "full"
    /\ eFrames[2] = DeltaRecord(<<>>)
    /\ eFrames[3].type = "delta"

\* C19: in every delta record computeDelta returns, the change indices are
\* strictly increasing and each lies in 0 .. rows*cols - 1.
C19_IndicesIncreasing ==
    (dPc # "start" /\ dRec.type = "delta") =>
        ChangesInOrder(dRec.changes, dCurr.rows * dCurr.cols)

\* A delta of two changes, the first cell and the last.
C19_Witness ==
    /\ dPc = "encoded"
    /\ dRec.type = "delta"
    /\ Len(dRec.changes) = 2
    /\ dRec.changes[1].index = 0
    /\ dRec.changes[2].index = dCurr.rows * dCurr.cols - 1

\* C20: for every integer n with 0 <= n < 2^32, decodeVarInt on the bytes of
\* encodeVarInt(n) returns value n and bytesRead equal to the number of bytes
\* encoded; every encoded byte but the last has bit 7 set and the last has
\* bit 7 clear.  (n is held as its 32-bit pattern: the value returned, a
\* signed 32-bit integer, equals n when bit 31 of n is clear and the low 31
\* bits sum to it.)
C20_VarIntRoundTrip ==
    /\ vPc \in {"encoded", "decoded"} =>
        /\ Len(vBytes) >= 1
        /\ \A k \in 1..(Len(vBytes) - 1) : vBytes[k] >= 128 /\ vBytes[k] <= 255
        /\ vBytes[Len(vBytes)] >= 0 /\ vBytes[Len(vBytes)] < 128
    /\ vPc = "decoded" =>
        /\ vOut.bytesRead = Len(vBytes)
        /\ 31 \notin vN
        /\ vOut.value = SumBits(vN)

\* The part of C20 below 2^31.
C20_Below2p31 ==
    (vPc = "decoded" /\ 31 \notin vN) =>
        /\ vOut.bytesRead = Len(vBytes)
        /\ vOut.value = SumBits(vN)

\* At and above 2^31 the value returned is n - 2^32.
C20_AboveWraps ==
    (vPc = "decoded" /\ 31 \in vN) =>
        /\ vOut.bytesRead = 5
        /\ vOut.value < 0
        /\ vOut.value = (SumBits(vN \ {31}) - (2 ^ 30)) - (2 ^ 30)

C16_WitnessWritten ==
    /\ ePc = "built"
    /\ eFileCount = 3
    /\ Len(eOutput.frames) = 3
    /\ eInputs[1] # eInputs[2]
    /\ eInputs[2] # eInputs[3]

\* A table that never decreases (invert false) or never increases (invert
\* true) from one luminance to the next.
Monotone(table, invert) ==
    \A k \in 1..(Len(table) - 1) :
        IF invert THEN table[k] >= table[k + 1] ELSE table[k] <= table[k + 1]

\* C13: for every ramp length L >= 1, the luminance-to-index table is
\* non-decreasing in luminance over 0..255 when invert is false and
\* non-increasing when invert is true, in the renderer's table and in the
\* worker's index function.
C13_LutMonotone ==
    /\ lPc \in {"renderer", "worker"} => (Len(lTable) = 256 /\ Monotone(lTable, lInvert))
    /\ lPc = "worker" => (Len(lWorker) = 256 /\ Monotone(lWorker, lInvert))

\* The renderer's table is monotone for ramps of up to 257 symbols.
C13_UpTo257 ==
    (lPc \in {"renderer", "worker"} /\ lRampLen <= 257) => Monotone(lTable, lInvert)

\* The worker's index is monotone for every ramp length.
C13_WorkerMonotone ==
    lPc = "worker" => Monotone(lWorker, lInvert)

\* From 258 symbols on the renderer's table wraps: the entry of the brightest
\* adjusted luminance is the index modulo 256.
C13_Wraps ==
    (lPc \in {"renderer", "worker"} /\ lRampLen >= 258) =>
        lTable[IF lInvert THEN 1 ELSE 256] = ((255 * lRampLen) \div 256) - 256

\* C14: for a raster whose pixels all have the gray value v, converted
\* without inversion with a ramp of length L, every grid cell gets the ramp
\* symbol at index floor(v * L / 256); v = 128 with ' .:+*#@' gives '+'.
C14_UniformGray ==
    (/\ cPc = "done"
     /\ cImage.kind = "gray"
     /\ cImage.width >= 1 /\ cImage.height >= 1 /\ cOptions.cols >= 1) =>
        /\ cResult.ok
        /\ \A k \in 1..Len(cResult.chars) :
            cResult.chars[k] =
                cOptions.ramp[((cImage.v * Len(cOptions.ramp)) \div 256) + 1]

\* The same when the raster has at least one pixel column per grid column.
C14_WhenSampled ==
    (/\ cPc = "done"
     /\ cImage.kind = "gray"
     /\ cImage.width >= 1 /\ cImage.height >= 1
     /\ cOptions.cols >= 1 /\ cOptions.cols <= cImage.width) =>
        /\ cResult.ok
        /\ Len(cResult.chars) = cResult.rows * cResult.cols
        /\ \A k \in 1..Len(cResult.chars) :
            cResult.chars[k] =
                cOptions.ramp[((cImage.v * Len(cOptions.ramp)) \div 256) + 1]

\* A raster narrower than the grid: every cell of a non-empty grid is sampled
\* from no pixel and gets the first ramp symbol and the colour 0, 0, 0.
C14_NarrowIsBlack ==
    (/\ cPc = "done"
     /\ cImage.width >= 1 /\ cImage.height >= 1
     /\ cOptions.cols > cImage.width) =>
        /\ cResult.ok
        /\ Len(cResult.chars) = cResult.rows * cResult.cols
        /\ Len(cResult.chars) >= 1
        /\ \A k \in 1..Len(cResult.chars) : cResult.chars[k] = cOptions.ramp[1]
        /\ \A k \in 1..Len(cResult.colors) : cResult.colors[k] = 0

\* Mid-gray on a 4 x 4 raster with two columns and ' .:+*#@': '+' everywhere.
C14_MidGrayPlus ==
    (/\ cPc = "done"
     /\ cImage = Raster(4, 4, "gray", 128)
     /\ cOptions = [cols |-> 2, ramp |-> DEFAULT_RAMP]) =>
        cResult.chars = <<43, 43>> /\ cResult.colors = <<128, 128, 128, 128, 128, 128>>

\* C15: a conversion called with cols < 1, or with a raster whose width or
\* height is not positive, fails with an error and returns no grid.
C15_InvalidDimensions ==
    (/\ cPc = "done"
     /\ (cOptions.cols < 1 \/ cImage.width <= 0 \/ cImage.height <= 0)) =>
        /\ ~cResult.ok
        /\ cResult.error # ""

\* What the code does instead: only a raster of width 0 fails, with the
\* RangeError of the array allocation; every other call returns a grid.
C15_OnlyZeroWidthFails ==
    cPc = "done" =>
        /\ cResult.ok <=> cImage.width > 0
        /\ ~cResult.ok => cResult.error = "RangeError"
        /\ (cResult.ok /\ (cOptions.cols < 1 \/ cImage.height = 0)) => cResult.chars = <<>>

\* C12: two conversions of an identical raster with identical cols, ramp and
\* invert flag produce identical symbol and colour grids, whatever other
\* conversions or option changes (later restored) were made in between on the
\* same converter.
C12_Deterministic ==
    (rOp = "render" /\ rRef.set /\ rIn = rRef.key) => rOut = rRef.out

\* The reference raster converted again after other conversions and option
\* changes, into a grid that is not uniform.
C12_Witness ==
    /\ rOp = "render"
    /\ rRef.set
    /\ rBetween
    /\ rIn = rRef.key
    /\ rIn.invert
    /\ rOut = rRef.out
    /\ Len(rOut.charCodes) = 20
    /\ \E k \in 1..19 : rOut.charCodes[k] # rOut.charCodes[k + 1]

\* The renderer and the worker on a raster narrower than the grid (40 pixels,
\* 80 columns): no cell is sampled, every colour is 0 and every symbol is the
\* one of luminance 0, whatever the raster holds.
C14_RendererNarrowIsBlack ==
    (rOp = "render" /\ rIn.cols > rIn.image.width) =>
        /\ Len(rOut.charCodes) = rOut.rows * rOut.cols
        /\ Len(rOut.charCodes) >= 1
        /\ \A k \in 1..Len(rOut.colors) : rOut.colors[k] = 0
        /\ \A k \in 1..Len(rOut.charCodes) :
            rOut.charCodes[k] =
                rIn.rampCodes[LumIndex(0, Len(rIn.rampCodes), rIn.invert) + 1]

\* The resolved frame a full frame record gives when it is the only record of
\* the animation.
ResolvedAlone(animation, n) ==
    preDecodeFrames([animation EXCEPT !.frames = <<animation.frames[n]>>])[1]

\* C21: applying a full frame replaces both running buffers wholesale: the
\* resolved symbols and colours after a full frame are that frame's grids and
\* do not depend on any earlier frame (they are what the frame gives when it
\* is resolved alone).
C21_FullReplaces ==
    bPc = "resolved" =>
        \A n \in 1..Len(bAnim.frames) :
            bAnim.frames[n].type = "full" =>
                /\ TextSymbols(bResolvedA[n].text) = bAnim.frames[n].chars
                /\ (bAnim.meta.colorMode # "mono" /\ bAnim.frames[n].hasColors) =>
                        bResolvedA[n].colors = bAnim.frames[n].colors
                /\ bResolvedA[n] = ResolvedAlone(bAnim, n)

\* The same for the animations whose full frames carry their colours whenever
\* colorMode is not mono.
C21_WhenColored ==
    (bPc = "resolved" /\ FullFramesColored(bAnim)) =>
        \A n \in 1..Len(bAnim.frames) :
            bAnim.frames[n].type = "full" =>
                /\ TextSymbols(bResolvedA[n].text) = bAnim.frames[n].chars
                /\ bAnim.meta.colorMode # "mono" =>
                        bResolvedA[n].colors = bAnim.frames[n].colors
                /\ bResolvedA[n] = ResolvedAlone(bAnim, n)

\* A full frame without colours after a frame with colours keeps the earlier
\* frame's colours.
C21_StaleColors ==
    (/\ bPc = "resolved"
     /\ bAnim.meta.colorMode # "mono"
     /\ Len(bAnim.frames) = 2
     /\ bAnim.frames[1].type = "full" /\ bAnim.frames[1].hasColors
     /\ bAnim.frames[2].type = "full" /\ ~bAnim.frames[2].hasColors) =>
        bResolvedA[2].colors = bAnim.frames[1].colors

\* C22: every decoded frame stored by the pre-decoder still holds the symbols
\* and colours it held when it was pushed, whatever records were applied to
\* the running buffers afterwards, and one decoded frame is stored per frame
\* record applied.
C22_SnapshotsIndependent ==
    /\ Len(pDecoded) = Len(pTaken)
    /\ Len(pDecoded) <= Len(pAnim.frames)
    /\ pPc = "done" => Len(pDecoded) = Len(pAnim.frames)
    /\ \A i \in 1..Len(pDecoded) :
          /\ pDecoded[i].text = pTaken[i].text
          /\ Deref(pHeap, pDecoded[i].colors) = pTaken[i].colors
          /\ pDecoded[i].colors # NoRef0 => pDecoded[i].colors # pCur

\* A delta with a colour changed the running colour array after an earlier
\* frame was stored.
C22_Witness ==
    /\ pPc = "done" /\ Len(pDecoded) = 3
    /\ pAnim.frames[3].type = "delta"
    /\ pDecoded[1].colors # NoRef0
    /\ Deref(pHeap, pDecoded[1].colors) # Deref(pHeap, pDecoded[3].colors)
    /\ Deref(pHeap, pDecoded[2].colors) # Deref(pHeap, pDecoded[3].colors)

\* The stepwise pre-decoder stores the frames preDecodeFrames computes.
C22_SameAsPreDecodeFrames ==
    pPc = "done" =>
        LET whole == preDecodeFrames(pAnim)
        IN  /\ Len(whole) = Len(pDecoded)
            /\ \A i \in 1..Len(pDecoded) :
                  /\ whole[i].text = pDecoded[i].text
                  /\ whole[i].hasColors = (pDecoded[i].colors # NoRef0)
                  /\ whole[i].hasColors => whole[i].colors = Deref(pHeap, pDecoded[i].colors)

\* C23: on a live player with at least one decoded frame, a scheduled
\* callback that finds elapsed >= frameDuration renders the frame at
\* frameIndex and then advances frameIndex by one modulo the frame count,
\* calling onLoop exactly when the index wraps from the last frame to 0; a
\* callback that finds elapsed < frameDuration renders nothing and leaves
\* frameIndex as it is; frameIndex stays within [0, length - 1].  (A step of
\* a callback is one that ends with lastOp = "tick" and does not advance the
\* clock.)
C23_TickAdvances ==
    /\ [](decodedCount >= 1 => frameIndex \in 0..(decodedCount - 1))
    /\ [][(lastOp' = "tick" /\ elapsed' <= elapsed /\ ~isDestroyed
              /\ decodedCount >= 1) =>
            IF elapsed >= frameDuration
            THEN /\ drew'
                 /\ container' = <<frameIndex>>
                 /\ frameIndex' = (frameIndex + 1) % decodedCount
                 /\ looped' = (frameIndex = decodedCount - 1)
                 /\ elapsed' = elapsed % frameDuration
            ELSE /\ ~drew'
                 /\ ~looped'
                 /\ container' = container
                 /\ frameIndex' = frameIndex
                 /\ elapsed' = elapsed]_vars

\* A callback of a playing player of three frames rendered the last frame
\* and wrapped to frame 0.
C23_Witness ==
    /\ lastOp = "tick" /\ ~isDestroyed /\ rafId # Null
    /\ decodedCount = 3 /\ indexBefore = 2 /\ frameIndex = 0
    /\ drew /\ looped /\ container = <<2>>

\* A callback that came before frameDuration had elapsed.
C23_WitnessEarly ==
    /\ lastOp = "tick" /\ ~isDestroyed /\ rafId # Null
    /\ decodedCount = 3 /\ indexBefore = 1 /\ frameIndex = 1
    /\ ~drew /\ ~looped /\ container = <<0>>

\* C26: whatever sequence of play(), pause(), seek() and setSpeed() calls is
\* made, at most one animation callback of the player is scheduled, and so
\* the callbacks of one instant advance frameIndex at most once.
C26_OneCallback == Cardinality(scheduled) <= 1

\* play() on a player that is already playing.
C26_SecondPlay ==
    /\ lastOp = "play" /\ ~isDestroyed /\ Cardinality(scheduled) = 2
    /\ rafId \in scheduled

\* Apart from play() on a playing player, no call adds a callback.
C26_OnlyPlayAdds ==
    [][Cardinality(scheduled') > Cardinality(scheduled) =>
            lastOp' = "play"]_vars

C25_ReturnedIsCopy == rRef.set => rRef.now = rRef.out

\* The worker's frames are copies: no later conversion changes them.
C25_WorkerCopies == (rKind = "worker" /\ rRef.set) => rRef.now = rRef.out

\* The renderer's frame is its buffers: while the grid keeps its shape, the
\* frame handed out earlier reads as the latest conversion.
C25_RendererAliases ==
    (rKind = "renderer" /\ rRef.set /\ rRef.live) =>
        /\ rRef.now.charCodes = rCharBuf
        /\ rRef.now.colors = rColorBuf

\* A frame of the renderer that a later conversion of another raster changed.
C25_Overwritten ==
    /\ rKind = "renderer" /\ rRef.set /\ rOp = "render"
    /\ rRef.now.colors # rRef.out.colors
    /\ rRef.now.rows = rRef.out.rows /\ rRef.now.cols = rRef.out.cols

\* C27: once destroy() has been called on the hero, the hero holds no
\* player, no callback that would render is scheduled, nothing is written
\* into the ascii element and the container stays empty, also when destroy()
\* was called while init was still loading the animation.
C27_DestroyIsFinal ==
    hDestroyedAt # "never" =>
        /\ ~hHasPlayer
        /\ rafId = Null
        /\ scheduled # {} => isDestroyed
        /\ container = <<>>
        /\ hChildren = {}

\* destroy() after init has finished, with or without a player, is final.
C27_AfterInit ==
    hDestroyedAt \in {"ready", "failed"} =>
        /\ ~hHasPlayer
        /\ rafId = Null
        /\ scheduled # {} => isDestroyed
        /\ container = <<>>
        /\ hChildren = {}

\* destroy() during loading, after which init constructed and started the
\* player, which rendered a frame.
C27_PlaysAfterDestroy ==
    /\ hDestroyedAt = "loading" /\ hPc = "ready"
    /\ hHasPlayer /\ ~isDestroyed /\ rafId # Null /\ rafId \in scheduled
    /\ lastOp = "tick" /\ drew /\ container # <<>>
    /\ hChildren = {}

\* destroy() during loading, after which the load failed and the fallback
\* image was appended to the emptied container.
C27_FallbackAfterDestroy ==
    /\ hDestroyedAt = "loading" /\ hPc = "failed" /\ hChildren = {"img"}

\* C28: from reset() until a new video is loaded the app's current frame is
\* empty, whatever arrives in between, a frame of a worker conversion that
\* was in flight at reset() included.
C28_ResetStaysEmpty == ~videoLoaded => currentFrame = "none"

\* reset() itself leaves no video, no playback and no current frame.
C28_ResetClears ==
    appOp = "reset" => (currentFrame = "none" /\ ~videoLoaded /\ ~videoPlaying
                        /\ frameSkipCount = 0)

\* The frame of a conversion posted before reset() was handled after it.
C28_LateWorkerFrame ==
    /\ appOp = "workerFrame" /\ ~videoLoaded /\ ~videoPlaying /\ ~firstFrameTimer
    /\ currentFrame = "worker" /\ workerInbox = <<>> /\ workerOutbox = <<>>

\* The first-frame timer of onVideoLoaded ran after reset().
C28_LateFirstFrame ==
    /\ appOp = "firstFrame" /\ ~videoLoaded /\ currentFrame = "main"

\* C29: every render request posted to the worker is eventually answered
\* with a frame, so that pendingFrame, set when the request was posted, is
\* eventually cleared, and frames are not dropped for ever while the worker
\* is in use.
C29_RenderAnswered ==
    /\ pendingFrame ~> ~pendingFrame
    /\ (useWorker /\ pendingFrame) ~> ~(useWorker /\ pendingFrame)

\* Frames are not dropped for ever: the worker answers, or the page stops
\* using it.
C29_NotDroppedForever ==
    (useWorker /\ pendingFrame) ~> ~(useWorker /\ pendingFrame)

\* While the worker has not failed, a set pendingFrame has its request or
\* its frame under way.
C29_PendingHasRequest ==
    (useWorker /\ pendingFrame) => UnansweredRenders >= 1

\* The worker failed on a render request: pendingFrame is set and nothing
\* is under way that would clear it.
C29_LostRequest ==
    /\ appOp = "workerError" /\ pendingFrame /\ ~useWorker
    /\ workerInbox = <<>> /\ workerOutbox = <<>>

\* C30: decodeBinary returns or throws on every buffer, truncated buffers
\* and buffers whose varint bytes all carry the continuation bit included:
\* a decodeVarInt call at any offset reads at most one byte beyond the end of
\* the buffer, the frame loop runs frameCount times, and the change loop
\* started at any offset runs as many times as the count it is given.
C30_DecodeTerminates ==
    bPc \in {"decoded", "failed"} =>
        /\ \A offset \in 0..(Len(bBuffer) + 1) :
              decodeVarInt(bBuffer, offset).bytesRead \in
                  1..(Max(Len(bBuffer) - offset, 0) + 1)
        /\ decodeVarInt(bBuffer, NaN).bytesRead = 1
        /\ bResult.ok =>
              /\ Len(bResult.animation.frames) = bResult.animation.meta.frameCount
              /\ bResult.animation.meta.frameCount = GetUint16(bBuffer, 11)
        /\ \A offset \in 0..(Len(bBuffer) + 1), changeCount \in {-1, 2} :
              Len(DecodeChanges(bBuffer, offset, 0, changeCount,
                                bAnim.meta.colorMode # "mono", <<>>).changes)
                  = Max(changeCount, 0)

\* A buffer that ends in continuation bytes was decoded: the varint read at
\* its fourth byte from the end ran to the end and one byte beyond.
C30_Witness ==
    /\ bPc = "decoded" /\ bTamper = "continued" /\ bResult.ok
    /\ Len(bResult.animation.frames) = 2
    /\ bBuffer[Len(bBuffer)] = 128
    /\ decodeVarInt(bBuffer, Len(bBuffer) - 4).bytesRead = 5
    /\ decodeVarInt(bBuffer, Len(bBuffer) - 4).value = 0

\* A truncated buffer was decoded: the varint read at its end takes the one
\* undefined byte.
C30_WitnessTruncated ==
    /\ bPc = "decoded" /\ bTamper = "truncated" /\ bResult.ok
    /\ Len(bResult.animation.frames) = 2
    /\ decodeVarInt(bBuffer, Len(bBuffer)) = [value |-> 0, bytesRead |-> 1]

====
